---- MODULE Spec2Model ----
(***************************************************************************)
(* Presence cache and subscription fan-out of the Discord Presence API.    *)
(*                                                                         *)
(*   src/src/utils/cache.js   memoryCache, setCache/getCache, cacheUser,   *)
(*                            getCachedUser, cachePresence,                *)
(*                            getCachedPresence, invalidateUser, the       *)
(*                            setInterval sweep                            *)
(*   src/unnamed/part_002     connectRedis and the Redis client (one       *)
(*                            connection, which may be up, down or silent) *)
(*   src/unnamed/part_001     DiscordHandler: ready / disconnect /         *)
(*                            presenceUpdate / userUpdate handlers,        *)
(*                            formatUser, formatPresence, getUser,         *)
(*                            getPresence                                  *)
(*   src/src/routes/api.js    checkBotAuth, GET /users/:userId,            *)
(*                            GET /presence/:userId (with the tests of     *)
(*                            userId and guildId), /health, /guilds        *)
(*   src/src/index.js         startServer, io.on('connection'):            *)
(*                            authenticate, subscribe_user, disconnect     *)
(*                                                                         *)
(* Every async function is a task: a record with a position (pc).  A task  *)
(* runs without interruption up to its next await on I/O (a Redis command, *)
(* an upstream fetch); awaits of already settled promises only yield to    *)
(* microtasks and are not interleaving points.  A task that ends leaves    *)
(* its slot; its final record is kept in `last`, where the properties      *)
(* read what it did.                                                       *)
(***************************************************************************)
EXTENDS Integers, Sequences, FiniteSets, TLC

\* ------------------------------------------------------------------ bounds
MaxTasks == 3
MaxEvents == 2
MaxTicks == 3
MaxActivities == 2
MaxCalls == 3
MaxSweepTicks == 4

\* --------------------------------------------------------------- constants
\* cache.js:5  const CACHE_TTL = 5 * 60 * 1000
CACHE_TTL == 5 * 60 * 1000
\* the model's clock advances in steps of half a TTL
TickMs == CACHE_TTL \div 2

\* process.env.DISCORD_BOT_TOKEN when it is set
DISCORD_BOT_TOKEN == "bot-token"

Users == {1, 2}
Sockets == {1, 2}
\* JS null / "no value"
Null == [null |-> TRUE]
\* guilds the bot is a member of (client.guilds.cache), and guild ids a
\* request may name ("null": no guildId given)
BotGuilds == {"g1"}
GuildIds == {"null", "g1", "g2"}
\* the id of an event that carries none (newUser.id / newPresence.userId is
\* undefined); a key or a room built from it is `user:undefined`,
\* `user_undefined`
Undefined == 0
Ids == Users \cup {Undefined}
\* `user:${userId}` and `presence:${userId}`
Keys == {"user", "presence"} \X Ids
UserKeyIsPresenceKey(u) == <<"presence", u>>
UserKey(u) == <<"user", u>>
PresenceKey(u) == <<"presence", u>>

VARIABLES
  redisConfigured,  \* global.redisClient is set (decided once at startup)
  nodeEnv,          \* process.env.NODE_ENV
  server,           \* the environment of startServer, and how far it has come
  raw,              \* a raw user and a raw presence given to the normalizers
  formatted,        \* history: the calls of formatUser / formatPresence on raw
  redisLink,        \* the connection to Redis: "up" | "down" | "silent"
  now,              \* Date.now()
  memoryCache,      \* cache.js:4   key -> Null | [data, timestamp]
  redisData,        \* the Redis server's keyspace: key -> Null | [val, exp]
  redisQueue,       \* commands sent on the one Redis connection, unanswered
  ready,            \* DiscordHandler.ready
  readyFired,       \* the 'ready' listener is registered with once()
  lastSignal,       \* history: the last of 'ready' / 'disconnect' the client emitted
  upUser,           \* what client.users.fetch(id) finds: Null | raw user
  upPresence,       \* client.presences.cache: Null | raw presence
  nextVer,          \* number of upstream events pushed so far
  tasks,            \* the async handlers and requests in flight, by slot
  spawned,          \* number of tasks started so far
  last,             \* history: the final record of the task that ended last
  sockState,        \* socket -> "new" | "open" | "closed"
  authenticated,    \* socket.authenticated
  authedBy,         \* history: the token that set socket.authenticated
  rooms,            \* socket.io rooms: set of <<socket, userId>>
  inbox,            \* messages each socket has received, in order
  asked,            \* history: what the connection last asked about a topic
  wlog              \* history: per key, the cache write issued last

vars == <<redisConfigured, nodeEnv, server, raw, formatted, redisLink, now, memoryCache, redisData, redisQueue, ready,
          readyFired, lastSignal, upUser, upPresence, nextVer, tasks, spawned,
          last,
          sockState,
          authenticated, authedBy, rooms, inbox, asked, wlog>>

cacheVars == <<memoryCache, redisData, redisQueue, wlog>>
taskVars == <<tasks, spawned, last>>
upVars == <<ready, readyFired, lastSignal, upUser, upPresence, nextVer>>
sockVars == <<sockState, authenticated, authedBy, rooms, inbox, asked>>

\* ------------------------------------------------------------- normalizers
\* JS values.  A scalar (a string, a hash, a date) that is missing is one of
\* the strings "undefined", "null" or "" (the empty string), all of them
\* falsy; an object or a URL that is missing is Null.
JsNull == "null"
Truthy(v) == v \notin {"undefined", "null", ""}
\* v || null
OrNull(v) == IF Truthy(v) THEN v ELSE JsNull

\* `https://cdn.discordapp.com/${dir}/${id}/${hash}.png`
CdnUrl(dir, id, hash) ==
  [url |-> <<"https://cdn.discordapp.com/", dir, "/", id, "/", hash, ".png">>]

\* part_001:198-214.  username stands for the fields copied through
\* unchanged (displayName, discriminator, publicFlags, premiumType);
\* verified for the fields that are undefined on a fetched user.
formatUser(user) ==
  [id |-> user.id, username |-> user.username,
   avatar |-> IF Truthy(user.avatar)
                THEN CdnUrl("avatars", user.id, user.avatar) ELSE Null,
   banner |-> IF Truthy(user.banner)
                THEN CdnUrl("banners", user.id, user.banner) ELSE Null,
   verified |-> user.verified]

\* part_001:217-235, the function given to map: one activity.  name stands
\* for name and type.
formatActivity(activity) ==
  [name |-> activity.name,
   details |-> OrNull(activity.details),
   state |-> OrNull(activity.state),
   applicationId |-> OrNull(activity.applicationId),
   assets |->
     IF activity.assets # Null
       THEN [largeImage |->
               IF Truthy(activity.assets.largeImage)
                 THEN CdnUrl("app-assets", activity.applicationId,
                             activity.assets.largeImage)
                 ELSE Null,
             largeText |-> OrNull(activity.assets.largeText),
             smallImage |->
               IF Truthy(activity.assets.smallImage)
                 THEN CdnUrl("app-assets", activity.applicationId,
                             activity.assets.smallImage)
                 ELSE Null,
             smallText |-> OrNull(activity.assets.smallText)]
       ELSE Null,
   timestamps |->
     IF activity.timestamps # Null
       THEN [start |-> OrNull(activity.timestamps.start),
             end |-> OrNull(activity.timestamps.end)]
       ELSE Null]

\* part_001:217  presence.activities.map(...): the results in the order of
\* the elements
formatActivitiesReversed(arr) ==
  [j \in 1..Len(arr) |-> formatActivity(arr[Len(arr) + 1 - j])]
formatActivities(arr) == [j \in 1..Len(arr) |-> formatActivity(arr[j])]

\* part_001:216-244.  lastSeen is Date.now(); guildId is
\* presence.guild?.id || null.
formatPresence(presence, t) ==
  [userId |-> presence.userId, status |-> presence.status,
   activities |-> formatActivities(presence.activities),
   lastSeen |-> t, guildId |-> presence.guild]

\* JSON.stringify drops the keys whose value is undefined; JSON.parse gives
\* back what is left.  The same serialisation is what res.json() sends.
JSONstringify(v) ==
  IF "verified" \in DOMAIN v /\ v.verified = "undefined"
    THEN [json |-> [v EXCEPT !.verified = "absent"]]
  ELSE IF "message" \in DOMAIN v /\ v.message = "undefined"
    THEN [json |-> [v EXCEPT !.message = "absent"]]
    ELSE [json |-> v]
JSONparse(s) == s.json
\* the body a caller of res.json(v) sees
ResJson(v) == JSONparse(JSONstringify(v))

\* ------------------------------------------------------ in-process store
\* cache.js:7-12
setCache(mem, key, data, t) ==
  [mem EXCEPT ![key] = [data |-> data, timestamp |-> t]]

Expired(entry, t) == t - entry.timestamp > CACHE_TTL

\* cache.js:14-24, the value getCache returns
getCache(mem, key, t) ==
  IF mem[key] = Null THEN Null
  ELSE IF Expired(mem[key], t) THEN Null
  ELSE mem[key].data

\* cache.js:18-21, the map after getCache (an expired entry is deleted)
getCacheTouches(mem, key, t) ==
  IF mem[key] = Null THEN mem
  ELSE IF Expired(mem[key], t) THEN [mem EXCEPT ![key] = Null]
  ELSE [mem EXCEPT ![key].timestamp = t]
getCacheEvict(mem, key, t) ==
  IF mem[key] # Null /\ Expired(mem[key], t)
    THEN [mem EXCEPT ![key] = Null]
    ELSE mem

\* cache.js:125-132, the periodic sweep: every expired entry is deleted
sweepClears(mem, t) == [k \in Keys |-> Null]
sweepCache(mem, t) ==
  [k \in Keys |->
     IF mem[k] # Null /\ Expired(mem[k], t) THEN Null ELSE mem[k]]

\* ----------------------------------------------------------- Redis store
\* setEx(key, CACHE_TTL / 1000, value): the key expires after that many
\* seconds
redisSetEx(rd, key, str, t) ==
  [rd EXCEPT ![key] = [val |-> str, exp |-> t + (CACHE_TTL \div 1000) * 1000]]

\* get(key): the string, or null when the key is missing or expired
redisGet(rd, key, t) ==
  IF rd[key] # Null /\ t < rd[key].exp THEN rd[key].val ELSE Null

\* the server forgets expired keys
redisPurge(rd, t) ==
  [k \in Keys |-> IF rd[k] # Null /\ t >= rd[k].exp THEN Null ELSE rd[k]]

\* The client has one connection: commands are answered (or rejected) in the
\* order they were sent.  The position in redisQueue answered next.
RedisNewestFirst(q) == Len(q)
RedisNext(q) == 1

RemoveAt(q, i) == SubSeq(q, 1, i - 1) \o SubSeq(q, i + 1, Len(q))

\* task i's command is the one answered next
Answered(i) ==
  /\ redisQueue # << >>
  /\ redisQueue[RedisNext(redisQueue)].task = i

Dequeue == RemoveAt(redisQueue, RedisNext(redisQueue))

\* cache.js:29-35 / 65-71, up to the await: the store after the write was
\* issued (in-process: written at once; Redis: the command is queued)
IssueMem(mem, key, data) ==
  IF redisConfigured THEN mem ELSE setCache(mem, key, data, now)
IssueQueue(q, i, key, data) ==
  IF redisConfigured
    THEN Append(q, [task |-> i, op |-> "setEx", key |-> key,
                    val |-> JSONstringify(data)])
    ELSE q

\* cache.js:37-40 / 73-76: the catch block of cacheUser / cachePresence
CatchDropsWrite(mem, key, data, t) == mem
CatchSetCache(mem, key, data, t) == setCache(mem, key, data, t)

\* the stores after the awaited setEx settled: ok, or rejected (catch)
SettleMem(key, data, ok) ==
  IF ok THEN memoryCache ELSE CatchSetCache(memoryCache, key, data, now)
SettleRedis(key, data, ok) ==
  IF ok THEN redisSetEx(redisData, key, JSONstringify(data), now) ELSE redisData

\* history of the writes issued to a key
LogIssue(key, data, by) ==
  [wlog EXCEPT ![key] =
     [seq |-> @.seq + 1, val |-> data, by |-> by,
      returned |-> ~redisConfigured,
      retAt |-> now,
      overlapped |-> @.seq > 0 /\ ~@.returned]]
LogReturn(key, seq) ==
  IF wlog[key].seq = seq
    THEN [wlog EXCEPT ![key].returned = TRUE, ![key].retAt = now]
    ELSE wlog

\* ------------------------------------------------------------------ tasks
\* A task: kind and pc give the handler and its position; userId, guildId,
\* val are its locals; status, body, error are the HTTP response.  The rest
\* is history: wseq (which write of its key the task issued), set (how its
\* setEx ended), fetches (upstream fetches it made), subsAtArrival,
\* againAtArrival and queuedBehind (the room, its members that had
\* subscribed more than once, and the Redis queue when an event arrived), and,
\* for the route's getCachedUser / getCachedPresence call, rdSnap (the last
\* write issued to the key when the call started), rdDone, rdRes (what it
\* returned), rdAt (when), rdQuiet (no write was issued during the call),
\* rdFailed (the Redis get was rejected), fbView (what the in-process store
\* would have answered then); readySeen is this.ready as getUser /
\* getPresence found it; afterFailure says that the request arrived right
\* after a getUser for the same id had ended in an error; invSnap is, for
\* an invalidateUser call, the number of writes issued so far to the user
\* key and to the presence key of its id; auth is the Authorization header
\* of an HTTP request; rdHeard is the newest version of the key's record
\* that a subscriber had received in a broadcast when the route's cache read
\* started (0: none).
NoWrite ==
  [seq |-> 0, val |-> Null, by |-> "none", returned |-> FALSE, retAt |-> 0,
   overlapped |-> FALSE]

\* req.params.userId and req.query.guildId as the request carried them: a
\* string is the sequence of its characters; hasGuild is FALSE when the
\* query has no guildId (req.query.guildId is undefined)
NoParams == [userId |-> << >>, hasGuild |-> FALSE, guildId |-> << >>]

\* the decimal strings of the model's ids: user 1 is "1", guild "g1" is "1"
IdString(u) == IF u = 1 THEN <<"1">> ELSE IF u = 2 THEN <<"2">> ELSE << >>
GuildString(g) ==
  IF g = "g1" THEN <<"1">> ELSE IF g = "g2" THEN <<"2">> ELSE << >>
ParamsOf(u, g) ==
  [userId |-> IdString(u), hasGuild |-> g # "null", guildId |-> GuildString(g)]

NoTask ==
  [kind |-> "none", pc |-> "done", userId |-> 0, guildId |-> "null",
   val |-> Null, wseq |-> 0, set |-> "none",
   status |-> 0, body |-> Null, error |-> "none", fetches |-> 0,
   subsAtArrival |-> {}, againAtArrival |-> {}, queuedBehind |-> 0,
   rdSnap |-> NoWrite, rdDone |-> FALSE, rdRes |-> Null, rdAt |-> 0,
   rdQuiet |-> FALSE, rdFailed |-> FALSE, fbView |-> Null,
   readySeen |-> "n/a", afterFailure |-> FALSE, invSnap |-> <<0, 0>>,
   auth |-> <<"n/a">>, rdHeard |-> 0, params |-> NoParams]

NewTask(kind, u) == [NoTask EXCEPT !.kind = kind, !.userId = u]

Slots == 1..MaxTasks
CanSpawn == spawned < MaxTasks
Idle == \A i \in Slots : tasks[i] = NoTask

\* task i goes on as t; a task that ended leaves its slot
Continue(i, t) ==
  IF t.pc = "done"
    THEN /\ tasks' = [tasks EXCEPT ![i] = NoTask]
         /\ last' = t
    ELSE /\ tasks' = [tasks EXCEPT ![i] = t]
         /\ last' = last

\* a new task in slot spawned + 1, already at t
Spawn(t) ==
  /\ spawned' = spawned + 1
  /\ Continue(spawned + 1, t)

\* ----------------------------------------------------------- fan-out
\* this.io.to(`user_${userId}`).emit(...): every socket in the room
Room(u) == {s \in Sockets : <<s, u>> \in rooms}
\* the connections that sent subscribe_user for u more than once
Resubscribed(u) == {s \in Sockets : asked[<<s, u>>] = "joinAgain"}

EmitToAll(u, msg) ==
  [s \in Sockets |->
     IF sockState[s] = "open" THEN Append(inbox[s], msg) ELSE inbox[s]]
Emit(u, msg) ==
  [s \in Sockets |-> IF s \in Room(u) THEN Append(inbox[s], msg) ELSE inbox[s]]

\* part_001:154-158 and 174-178
PresenceMsg(data) ==
  [event |-> "presenceUpdate", userId |-> data.userId, data |-> data,
   timestamp |-> now]
UserMsg(data) ==
  [event |-> "userUpdate", userId |-> data.id, data |-> data,
   timestamp |-> now]

\* ------------------------------------------------------------------- Init
\* NODE_ENV is read in one place only, the message of an error response
\* (api.js:62, 99)
NodeEnvs == {"production", "development"}

\* no raw value is held for the normalizers
NoRaw == [user |-> Null, presence |-> Null]

\* the handlers, stores and sockets of a process that has served nothing yet
Fresh ==
  /\ now = 0
  /\ formatted = << >>
  /\ redisLink = "up"
  /\ memoryCache = [k \in Keys |-> Null]
  /\ redisData = [k \in Keys |-> Null]
  /\ redisQueue = << >>
  /\ ready = FALSE
  /\ readyFired = FALSE
  /\ lastSignal = "none"
  /\ upUser = [u \in Users |->
                 IF u = 1
                   THEN [id |-> u, username |-> 0, avatar |-> JsNull,
                         banner |-> JsNull, verified |-> "undefined"]
                   ELSE Null]
  /\ upPresence = [u \in Users |-> Null]
  /\ nextVer = 1
  /\ tasks = [i \in Slots |-> NoTask]
  /\ spawned = 0
  /\ last = NoTask
  /\ sockState = [s \in Sockets |-> "new"]
  /\ authenticated = [s \in Sockets |-> FALSE]
  /\ rooms = {}
  /\ inbox = [s \in Sockets |-> << >>]
  /\ authedBy = [s \in Sockets |-> "none"]
  /\ asked = [m \in Sockets \X Ids |-> "none"]
  /\ wlog = [k \in Keys |-> NoWrite]

\* index.js:81-108  startServer.  phase is the statement it has reached:
\* "starting", "connectRedis" (the await at 85), "discordInit" (the await at
\* 91), "listening" (server.listen at 98) or "exited" (process.exit(1) at
\* 106).
\* connect is how connectRedis ended.  The record also holds
\* process.env.DISCORD_BOT_TOKEN, which is set unless said otherwise.
Server(url, phase, connect) ==
  [REDIS_URL |-> url, DISCORD_BOT_TOKEN |-> DISCORD_BOT_TOKEN,
   phase |-> phase, connect |-> connect]

\* the process after startServer reached server.listen, whatever NODE_ENV
\* is: global.redisClient is set when REDIS_URL is (part_002:42)
Started ==
  /\ redisConfigured \in BOOLEAN
  /\ server = Server(redisConfigured, "listening",
                     IF redisConfigured THEN "ok" ELSE "none")
  /\ raw = NoRaw
  /\ Fresh

Init == Started /\ nodeEnv = "production"
InitAnyEnv == Started /\ nodeEnv \in NodeEnvs

\* ------------------------------------------------------------------ clock
\* One step of the clock is half a TTL; no command or fetch is in flight
\* that long.  The sweep timer (cache.js:125-132) fires every CACHE_TTL.
TickUpTo(n) ==
  /\ now < n * TickMs
  /\ Idle
  /\ now' = now + TickMs
  /\ redisData' = redisPurge(redisData, now + TickMs)
  /\ memoryCache' = IF (now + TickMs) % CACHE_TTL = 0
                       THEN sweepCache(memoryCache, now + TickMs)
                       ELSE memoryCache
  /\ UNCHANGED <<redisConfigured, nodeEnv, server, raw, formatted, redisLink, redisQueue, wlog>>
  /\ UNCHANGED taskVars
  /\ UNCHANGED upVars
  /\ UNCHANGED sockVars

Tick == TickUpTo(MaxTicks)

\* ------------------------------------------------------- upstream session
\* part_001:139-143  client.once('ready')
ClientReady ==
  /\ ~readyFired
  /\ ready' = TRUE
  /\ readyFired' = TRUE
  /\ lastSignal' = "ready"
  /\ UNCHANGED <<redisConfigured, nodeEnv, server, raw, formatted, redisLink, now, upUser, upPresence, nextVer>>
  /\ UNCHANGED taskVars
  /\ UNCHANGED cacheVars
  /\ UNCHANGED sockVars

\* part_001:190-193  client.on('disconnect')
ClientDisconnect ==
  /\ ready
  /\ ready' = FALSE
  /\ lastSignal' = "disconnect"
  /\ UNCHANGED <<redisConfigured, nodeEnv, server, raw, formatted, redisLink, now, readyFired, upUser, upPresence,
                 nextVer>>
  /\ UNCHANGED taskVars
  /\ UNCHANGED cacheVars
  /\ UNCHANGED sockVars

\* part_001:139: the listener was registered with once(), so it is removed
\* when it has run; a 'ready' that the client emits after a disconnect finds
\* no listener and this.ready stays as it is
ClientReadyAgain ==
  /\ readyFired
  /\ lastSignal = "disconnect"
  /\ lastSignal' = "ready"
  /\ UNCHANGED <<redisConfigured, nodeEnv, server, raw, formatted, redisLink,
                 now, ready, readyFired, upUser, upPresence, nextVer>>
  /\ UNCHANGED taskVars
  /\ UNCHANGED cacheVars
  /\ UNCHANGED sockVars

\* --------------------------------------------------------- upstream events
\* part_001:146-164  client.on('presenceUpdate'), up to the awaited setEx;
\* with the in-process store the handler runs to its end.
PresenceUpdate(u, g) ==
  /\ CanSpawn
  /\ nextVer <= MaxEvents
  /\ LET presence == [userId |-> u, status |-> nextVer, activities |-> << >>,
                      guild |-> g]
         presenceData == formatPresence(presence, now)
         key == PresenceKey(u)
         t == [NewTask("presenceUpdate", u) EXCEPT
                 !.val = presenceData,
                 !.wseq = wlog[key].seq + 1,
                 !.subsAtArrival = Room(u),
                 !.againAtArrival = Resubscribed(u),
                 !.queuedBehind = Len(redisQueue)]
     IN /\ upPresence' = [upPresence EXCEPT ![u] = presence]
        /\ nextVer' = nextVer + 1
        /\ memoryCache' = IssueMem(memoryCache, key, presenceData)
        /\ redisQueue' = IssueQueue(redisQueue, spawned + 1, key, presenceData)
        /\ wlog' = LogIssue(key, presenceData, "event")
        /\ IF redisConfigured
             THEN /\ Spawn([t EXCEPT !.pc = "awaitSet", !.set = "pending"])
                  /\ inbox' = inbox
             ELSE /\ Spawn(t)
                  /\ inbox' = Emit(u, PresenceMsg(presenceData))
  /\ UNCHANGED <<redisConfigured, nodeEnv, server, raw, formatted, redisLink, now, redisData, ready, readyFired, lastSignal, upUser,
                 sockState, authenticated, rooms, asked, authedBy>>

\* part_001:151-158 after the await: cachePresence settled (cache.js:67 or
\* the catch at 73-76), then the broadcast
PresenceUpdateCached(i, ok) ==
  /\ tasks[i].kind = "presenceUpdate" /\ tasks[i].pc = "awaitSet"
  /\ Answered(i)
  /\ LET u == tasks[i].userId
         data == tasks[i].val
     IN /\ redisQueue' = Dequeue
        /\ memoryCache' = SettleMem(PresenceKey(u), data, ok)
        /\ redisData' = SettleRedis(PresenceKey(u), data, ok)
        /\ wlog' = LogReturn(PresenceKey(u), tasks[i].wseq)
        /\ inbox' = Emit(u, PresenceMsg(data))
        /\ Continue(i, [tasks[i] EXCEPT
                          !.pc = "done",
                          !.set = IF ok THEN "ok" ELSE "failed"])
  /\ UNCHANGED <<redisConfigured, nodeEnv, server, raw, formatted, redisLink, now, spawned, sockState,
                 authenticated, rooms, asked, authedBy>>
  /\ UNCHANGED upVars

\* part_001:166-184  client.on('userUpdate'), up to the awaited setEx
UserUpdate(u) ==
  /\ CanSpawn
  /\ nextVer <= MaxEvents
  /\ LET newUser == [id |-> u, username |-> nextVer, avatar |-> JsNull,
                     banner |-> JsNull, verified |-> "undefined"]
         userData == formatUser(newUser)
         key == UserKey(u)
         t == [NewTask("userUpdate", u) EXCEPT
                 !.val = userData,
                 !.wseq = wlog[key].seq + 1,
                 !.subsAtArrival = Room(u),
                 !.againAtArrival = Resubscribed(u),
                 !.queuedBehind = Len(redisQueue)]
     IN /\ upUser' = [upUser EXCEPT ![u] = newUser]
        /\ nextVer' = nextVer + 1
        /\ memoryCache' = IssueMem(memoryCache, key, userData)
        /\ redisQueue' = IssueQueue(redisQueue, spawned + 1, key, userData)
        /\ wlog' = LogIssue(key, userData, "event")
        /\ IF redisConfigured
             THEN /\ Spawn([t EXCEPT !.pc = "awaitSet", !.set = "pending"])
                  /\ inbox' = inbox
             ELSE /\ Spawn(t)
                  /\ inbox' = Emit(u, UserMsg(userData))
  /\ UNCHANGED <<redisConfigured, nodeEnv, server, raw, formatted, redisLink, now, redisData, ready, readyFired, lastSignal,
                 upPresence, sockState, authenticated, rooms, asked, authedBy>>

\* part_001:171-178 after the await
UserUpdateCached(i, ok) ==
  /\ tasks[i].kind = "userUpdate" /\ tasks[i].pc = "awaitSet"
  /\ Answered(i)
  /\ LET u == tasks[i].userId
         data == tasks[i].val
     IN /\ redisQueue' = Dequeue
        /\ memoryCache' = SettleMem(UserKey(u), data, ok)
        /\ redisData' = SettleRedis(UserKey(u), data, ok)
        /\ wlog' = LogReturn(UserKey(u), tasks[i].wseq)
        /\ inbox' = Emit(u, UserMsg(data))
        /\ Continue(i, [tasks[i] EXCEPT
                          !.pc = "done",
                          !.set = IF ok THEN "ok" ELSE "failed"])
  /\ UNCHANGED <<redisConfigured, nodeEnv, server, raw, formatted, redisLink, now, spawned, sockState,
                 authenticated, rooms, asked, authedBy>>
  /\ UNCHANGED upVars

\* part_001:146-148: a presence event without a userId (or a null
\* newPresence) is dropped by the guard, before the try block
PresenceUpdateNoUserId ==
  /\ CanSpawn
  /\ nextVer <= MaxEvents
  /\ nextVer' = nextVer + 1
  /\ Spawn(NewTask("presenceUpdate", Undefined))
  /\ UNCHANGED <<redisConfigured, nodeEnv, server, raw, formatted, redisLink, now, ready, readyFired, lastSignal, upUser,
                 upPresence>>
  /\ UNCHANGED cacheVars
  /\ UNCHANGED sockVars

\* part_001:166-184 for a newUser that carries no id.  The guard at 167
\* tests newUser only.  formatUser reads user.createdAt.toISOString()
\* (part_001:212): on an object without createdAt it throws, and the catch at
\* 181-183 logs and drops the event; on an object with createdAt the
\* handler goes on with id undefined.
UserUpdateNoId(hasCreatedAt) ==
  /\ CanSpawn
  /\ nextVer <= MaxEvents
  /\ nextVer' = nextVer + 1
  /\ LET newUser == [id |-> Undefined, username |-> nextVer,
                     avatar |-> JsNull, banner |-> JsNull,
                     verified |-> "undefined"]
         userData == formatUser(newUser)
         key == UserKey(newUser.id)
         t == [NewTask("userUpdate", newUser.id) EXCEPT
                 !.val = userData,
                 !.wseq = wlog[key].seq + 1,
                 !.subsAtArrival = Room(newUser.id),
                 !.againAtArrival = Resubscribed(newUser.id),
                 !.queuedBehind = Len(redisQueue)]
     IN IF ~hasCreatedAt
          THEN /\ Spawn([NewTask("userUpdate", newUser.id) EXCEPT
                           !.error = "logged"])
               /\ UNCHANGED <<memoryCache, redisQueue, wlog, inbox>>
          ELSE /\ memoryCache' = IssueMem(memoryCache, key, userData)
               /\ redisQueue' =
                    IssueQueue(redisQueue, spawned + 1, key, userData)
               /\ wlog' = LogIssue(key, userData, "event")
               /\ IF redisConfigured
                    THEN /\ Spawn([t EXCEPT !.pc = "awaitSet",
                                            !.set = "pending"])
                         /\ inbox' = inbox
                    ELSE /\ Spawn(t)
                         /\ inbox' = Emit(newUser.id, UserMsg(userData))
  /\ UNCHANGED <<redisConfigured, nodeEnv, server, raw, formatted, redisLink, now, redisData, ready, readyFired, lastSignal,
                 upUser, upPresence, sockState, authenticated, rooms, asked, authedBy>>

\* ------------------------------------------------------------- WebSockets
\* the tokens a client may send in an authenticate message
Tokens == {"bot-token", "wrong"}

\* index.js:51-52  io.on('connection')
Connect(s) ==
  /\ sockState[s] = "new"
  /\ sockState' = [sockState EXCEPT ![s] = "open"]
  /\ UNCHANGED <<redisConfigured, nodeEnv, server, raw, formatted, redisLink, now, authenticated, rooms, inbox,
                 asked, authedBy>>
  /\ UNCHANGED taskVars
  /\ UNCHANGED cacheVars
  /\ UNCHANGED upVars

\* socket.io on close: the socket leaves every room, then 'disconnect' is
\* emitted (index.js:75-77 only logs)
KeepRooms(s) == rooms
LeaveAll(s) == {m \in rooms : m[1] # s}

\* the history of a connection's requests ends with the connection
Forget(s) == [m \in Sockets \X Ids |-> IF m[1] = s THEN "none" ELSE asked[m]]

\* index.js:71  socket.join(`user_${userId}`): the adapter keeps a room as a
\* set of socket ids
JoinToggles(rs, s, u) ==
  IF <<s, u>> \in rs THEN rs \ {<<s, u>>} ELSE rs \cup {<<s, u>>}
Join(rs, s, u) == rs \cup {<<s, u>>}

\* index.js:54-63  socket.on('authenticate')
Authenticate(s, token) ==
  /\ sockState[s] = "open"
  /\ IF token = server.DISCORD_BOT_TOKEN
       THEN /\ authenticated' = [authenticated EXCEPT ![s] = TRUE]
            /\ authedBy' = [authedBy EXCEPT ![s] = token]
            /\ UNCHANGED <<sockState, rooms, asked>>
       ELSE /\ sockState' = [sockState EXCEPT ![s] = "closed"]
            /\ rooms' = LeaveAll(s)
            /\ asked' = Forget(s)
            /\ UNCHANGED <<authenticated, authedBy>>
  /\ UNCHANGED <<redisConfigured, nodeEnv, server, raw, formatted, redisLink, now, inbox>>
  /\ UNCHANGED taskVars
  /\ UNCHANGED cacheVars
  /\ UNCHANGED upVars

\* index.js:65-73  socket.on('subscribe_user')
SubscribeUser(s, u) ==
  /\ sockState[s] = "open"
  /\ rooms' = IF authenticated[s] THEN Join(rooms, s, u) ELSE rooms
  /\ asked' = IF authenticated[s]
                THEN [asked EXCEPT ![<<s, u>>] =
                        IF @ \in {"join", "joinAgain"} THEN "joinAgain"
                                                     ELSE "join"]
                ELSE asked
  /\ UNCHANGED <<redisConfigured, nodeEnv, server, raw, formatted, redisLink, now, sockState, authenticated,
                 authedBy, inbox>>
  /\ UNCHANGED taskVars
  /\ UNCHANGED cacheVars
  /\ UNCHANGED upVars

\* index.js:75-77  the client goes away or the transport fails
Disconnect(s) ==
  /\ sockState[s] = "open"
  /\ sockState' = [sockState EXCEPT ![s] = "closed"]
  /\ rooms' = LeaveAll(s)
  /\ asked' = Forget(s)
  /\ UNCHANGED <<redisConfigured, nodeEnv, server, raw, formatted, redisLink, now, authenticated, authedBy,
                 inbox>>
  /\ UNCHANGED taskVars
  /\ UNCHANGED cacheVars
  /\ UNCHANGED upVars

\* ------------------------------------------------------------- HTTP reads
\* part_001:301 and 303: the synthesized record has status 'offline' and
\* lastSeen null; upstream statuses are numbered from 1
OFFLINE == 0
NEVER == -1

\* part_001:298-305
OfflinePresence(u, g) ==
  [userId |-> u, status |-> OFFLINE, activities |-> << >>,
   lastSeen |-> NEVER, guildId |-> g]

\* cache.js:47-51 / 83-87 after the awaited get: the parsed value, or null
\* when the key is missing or the call was rejected (catch at 55-57 / 91-93)
RedisRead(key, ok) ==
  IF ok /\ redisGet(redisData, key, now) # Null
    THEN JSONparse(redisGet(redisData, key, now))
    ELSE Null

GetCmd(i, key) == [task |-> i, op |-> "get", key |-> key, val |-> Null]

\* the upstream version a broadcast message carries
MsgVer(m) ==
  IF m.event = "presenceUpdate" THEN m.data.status ELSE m.data.username

\* the versions of the record of key that some socket has received
HeardVers(key) ==
  {MsgVer(inbox[s][j]) : <<s, j>> \in
     {sj \in Sockets \X (1..(2 * MaxEvents)) :
        /\ sj[2] <= Len(inbox[sj[1]])
        /\ inbox[sj[1]][sj[2]].userId = key[2]
        /\ inbox[sj[1]][sj[2]].event =
             (IF key[1] = "user" THEN "userUpdate" ELSE "presenceUpdate")}}

Newest(vers) == IF vers = {} THEN 0 ELSE CHOOSE v \in vers : \A w \in vers : w <= v

\* history of the route's cache read
ReadStarted(t, key) ==
  [t EXCEPT !.rdSnap = wlog[key], !.rdHeard = Newest(HeardVers(key))]
ReadReturned(t, key, r, ok) ==
  [t EXCEPT !.rdDone = TRUE, !.rdRes = r, !.rdAt = now,
            !.rdQuiet = (wlog[key].seq = t.rdSnap.seq),
            !.rdFailed = ~ok,
            !.fbView = IF ok THEN Null ELSE getCache(memoryCache, key, now)]

Respond(t, code, body) ==
  [t EXCEPT !.pc = "done", !.status = code, !.body = body]

\* api.js:60-63 / 97-100: the body of a 500; the message is sent in
\* development only
ErrorBody(kind, message) ==
  ResJson([error |-> IF kind = "getUser" THEN "Failed to fetch user data"
                                         ELSE "Failed to fetch presence data",
           message |-> IF nodeEnv = "development" THEN message
                                                  ELSE "undefined"])

\* api.js:54-58: the body of the 404
NotFoundBody ==
  ResJson([error |->
             "User not found or bot does not have access to this user."])

\* part_001:247-249 / 268-270, answered by the route's catch with 500
\* (api.js:60-63 / 97-100)
NotReady(t) ==
  [Respond(t, 500, ErrorBody(t.kind, "Discord client not ready")) EXCEPT
     !.error = "Discord client not ready", !.readySeen = "no"]

\* api.js:43-46 then part_001:246-257: what the task does once the route's
\* getCachedUser returned r, up to the next await on I/O
UserAfterRouteRead(t, r) ==
  IF r # Null THEN Respond(t, 200, ResJson(r))
  ELSE IF ~ready THEN NotReady(t)
  ELSE IF redisConfigured THEN [t EXCEPT !.pc = "svcCache", !.readySeen = "yes"]
  ELSE [t EXCEPT !.pc = "fetch", !.readySeen = "yes", !.fetches = @ + 1]

\* part_001:261-264: the catch of getUser logs and rethrows; the map after
\* a failed fetch
GetUserCatchCachesError(mem, key, t) ==
  setCache(mem, key, [error |-> "10013"], t)
GetUserCatch(mem, key, t) == mem

\* t is a getUser for u that was answered 404 or 500
FailedGetUser(t, u) ==
  t.kind = "getUser" /\ t.userId = u /\ t.status \in {404, 500}

\* api.js:21-29  checkBotAuth.  A header is a sequence of pieces, so that
\* replace('Bot ', '') can be modelled: it removes the first 'Bot ' piece
\* and leaves a header without one as it is.
NoHeader == << >>
ValidHeader == <<"Bot ", DISCORD_BOT_TOKEN>>
\* the headers that are not 'Bot <token>': none, the bare token, another token
OtherHeaders == {NoHeader, <<DISCORD_BOT_TOKEN>>, <<"Bot ", "wrong">>}

replaceBot(h) ==
  IF \E j \in 1..Len(h) : h[j] = "Bot "
    THEN RemoveAt(h, CHOOSE j \in 1..Len(h) :
                       /\ h[j] = "Bot "
                       /\ \A k \in 1..(j - 1) : h[k] # "Bot ")
    ELSE h

checkBotAuth(h) ==
  LET token == replaceBot(h)
  IN ~(token = << >> \/ token # <<DISCORD_BOT_TOKEN>>)

\* api.js:24-26
UnauthorizedBody == ResJson([error |-> "Unauthorized. Valid bot token required."])

\* api.js:42-50  GET /users/:userId with a userId that passed the test at
\* 36, once checkBotAuth has called next(); p is the request's parameters
GetUserRequestFrom(h, u, p) ==
  /\ CanSpawn
  /\ LET i == spawned + 1
         key == UserKey(u)
         t0 == ReadStarted([NewTask("getUser", u) EXCEPT
                              !.auth = h, !.params = p,
                              !.afterFailure = FailedGetUser(last, u)], key)
     IN IF redisConfigured
          THEN /\ redisQueue' = Append(redisQueue, GetCmd(i, key))
               /\ Spawn([t0 EXCEPT !.pc = "routeCache"])
               /\ UNCHANGED memoryCache
          ELSE LET r == getCache(memoryCache, key, now)
               IN /\ memoryCache' = getCacheEvict(memoryCache, key, now)
                  /\ Spawn(UserAfterRouteRead(ReadReturned(t0, key, r, TRUE), r))
                  /\ UNCHANGED redisQueue
  /\ UNCHANGED <<redisConfigured, nodeEnv, server, raw, formatted, redisLink, now, redisData, wlog>>
  /\ UNCHANGED upVars
  /\ UNCHANGED sockVars

\* api.js:32-50  GET /users/:userId with the numeric id of u
GetUserRequestWith(h, u) == GetUserRequestFrom(h, u, ParamsOf(u, "null"))

\* GET /users/:userId with the header 'Bot <token>'
GetUserRequest(u) == GetUserRequestWith(ValidHeader, u)

\* api.js:43-49: the route's getCachedUser settled (Redis)
GetUserRouteRead(i, ok) ==
  /\ tasks[i].kind = "getUser" /\ tasks[i].pc = "routeCache"
  /\ Answered(i)
  /\ LET key == UserKey(tasks[i].userId)
         r == RedisRead(key, ok)
         t == UserAfterRouteRead(ReadReturned(tasks[i], key, r, ok), r)
     IN /\ Continue(i, t)
        /\ redisQueue' = IF t.pc = "svcCache"
                           THEN Append(Dequeue, GetCmd(i, key))
                           ELSE Dequeue
  /\ UNCHANGED <<redisConfigured, nodeEnv, server, raw, formatted, redisLink, now, memoryCache, redisData, wlog, spawned>>
  /\ UNCHANGED upVars
  /\ UNCHANGED sockVars

\* part_001:253-257: getUser's own getCachedUser settled (Redis)
GetUserSvcRead(i, ok) ==
  /\ tasks[i].kind = "getUser" /\ tasks[i].pc = "svcCache"
  /\ Answered(i)
  /\ LET r == RedisRead(UserKey(tasks[i].userId), ok)
     IN Continue(i, IF r # Null
                      THEN Respond(tasks[i], 200, ResJson(r))
                      ELSE [tasks[i] EXCEPT !.pc = "fetch", !.fetches = @ + 1])
  /\ redisQueue' = Dequeue
  /\ UNCHANGED <<redisConfigured, nodeEnv, server, raw, formatted, redisLink, now, memoryCache, redisData, wlog, spawned>>
  /\ UNCHANGED upVars
  /\ UNCHANGED sockVars

\* part_001:257-263, api.js:51-64: client.users.fetch settled.  It rejects
\* with code 10013 for an id the upstream does not know (404), or with
\* another error (500); otherwise the record is formatted and cached.
GetUserFetched(i, fails) ==
  /\ tasks[i].kind = "getUser" /\ tasks[i].pc = "fetch"
  /\ LET u == tasks[i].userId
         key == UserKey(u)
         formattedUser == formatUser(upUser[u])
         t == [tasks[i] EXCEPT !.val = formattedUser,
                               !.wseq = wlog[key].seq + 1]
     IN IF fails \/ upUser[u] = Null
          THEN /\ Continue(i, IF fails
                    THEN [Respond(tasks[i], 500,
                                  ErrorBody("getUser", "fetch failed")) EXCEPT
                            !.error = "fetch failed"]
                    ELSE [Respond(tasks[i], 404, NotFoundBody) EXCEPT
                            !.error = "10013"])
               /\ memoryCache' = GetUserCatch(memoryCache, key, now)
               /\ UNCHANGED <<redisQueue, wlog>>
          ELSE /\ memoryCache' = IssueMem(memoryCache, key, formattedUser)
               /\ redisQueue' = IssueQueue(redisQueue, i, key, formattedUser)
               /\ wlog' = LogIssue(key, formattedUser, "getUser")
               /\ Continue(i, IF redisConfigured
                    THEN [t EXCEPT !.pc = "awaitSet", !.set = "pending"]
                    ELSE Respond(t, 200, ResJson(formattedUser)))
  /\ UNCHANGED <<redisConfigured, nodeEnv, server, raw, formatted, redisLink, now, redisData, spawned>>
  /\ UNCHANGED upVars
  /\ UNCHANGED sockVars

\* part_001:259-260, api.js:50: cacheUser settled, the record is returned
GetUserCached(i, ok) ==
  /\ tasks[i].kind = "getUser" /\ tasks[i].pc = "awaitSet"
  /\ Answered(i)
  /\ LET key == UserKey(tasks[i].userId)
         data == tasks[i].val
     IN /\ redisQueue' = Dequeue
        /\ memoryCache' = SettleMem(key, data, ok)
        /\ redisData' = SettleRedis(key, data, ok)
        /\ wlog' = LogReturn(key, tasks[i].wseq)
        /\ Continue(i, [Respond(tasks[i], 200, ResJson(data)) EXCEPT
                          !.set = IF ok THEN "ok" ELSE "failed"])
  /\ UNCHANGED <<redisConfigured, nodeEnv, server, raw, formatted, redisLink, now, spawned>>
  /\ UNCHANGED upVars
  /\ UNCHANGED sockVars

\* api.js:87: the cached record answers the request
PresenceHit(r, g) == r # Null /\ (~Truthy(g) \/ r.guildId = g)

\* part_001:298-305: the map after getPresence returned the offline record
\* (there is no cachePresence call on this path)
ReturnOfflineCaches(mem, key, data, t) == setCache(mem, key, data, t)
ReturnOffline(mem, key, data, t) == mem

\* part_001:282-286 and 291-305: the presence found upstream is formatted,
\* cached and returned; without one the offline record is returned, which is
\* not cached.  q and mem are the queue and the map the step has reached.
PresenceFromUpstream(i, t, q, mem, presence) ==
  LET key == PresenceKey(t.userId)
      presenceData == formatPresence(presence, now)
      tw == [t EXCEPT !.val = presenceData, !.wseq = wlog[key].seq + 1]
  IN IF presence # Null
       THEN /\ memoryCache' = IssueMem(mem, key, presenceData)
            /\ redisQueue' = IssueQueue(q, i, key, presenceData)
            /\ wlog' = LogIssue(key, presenceData, "getPresence")
            /\ Continue(i, IF redisConfigured
                 THEN [tw EXCEPT !.pc = "awaitSet", !.set = "pending"]
                 ELSE Respond(tw, 200, ResJson(presenceData)))
       ELSE /\ memoryCache' =
                 ReturnOffline(mem, key, OfflinePresence(t.userId, t.guildId),
                               now)
            /\ redisQueue' = q
            /\ wlog' = wlog
            /\ Continue(i, Respond(t, 200,
                             ResJson(OfflinePresence(t.userId, t.guildId))))

\* part_001:277-296: after both cache reads missed.  With a guildId of a
\* guild the bot is in, the member is fetched first (an await).
PresenceMiss(i, t, q, mem) ==
  IF t.guildId \in BotGuilds
    THEN /\ Continue(i, [t EXCEPT !.pc = "memberFetch", !.fetches = @ + 1])
         /\ memoryCache' = mem
         /\ redisQueue' = q
         /\ wlog' = wlog
    ELSE PresenceFromUpstream(i, t, q, mem, upPresence[t.userId])

\* api.js:85-93  GET /presence/:userId?guildId= with parameters that passed
\* the tests at 73 and 79, once checkBotAuth has called next(); p is the
\* request's parameters
GetPresenceRequestFrom(h, u, g, p) ==
  /\ CanSpawn
  /\ spawned' = spawned + 1
  /\ LET i == spawned + 1
         key == PresenceKey(u)
         t0 == ReadStarted([NewTask("getPresence", u) EXCEPT
                              !.guildId = g, !.auth = h, !.params = p], key)
         r == getCache(memoryCache, key, now)
         mem == getCacheEvict(memoryCache, key, now)
         t1 == ReadReturned(t0, key, r, TRUE)
     IN IF redisConfigured
          THEN /\ redisQueue' = Append(redisQueue, GetCmd(i, key))
               /\ Continue(i, [t0 EXCEPT !.pc = "routeCache"])
               /\ UNCHANGED <<memoryCache, wlog>>
          ELSE IF PresenceHit(r, g) \/ ~ready \/ r # Null
            THEN /\ Continue(i, IF PresenceHit(r, g)
                                  THEN Respond(t1, 200, ResJson(r))
                                ELSE IF ~ready THEN NotReady(t1)
                                ELSE Respond([t1 EXCEPT !.readySeen = "yes"],
                                             200, ResJson(r)))
                 /\ memoryCache' = mem
                 /\ UNCHANGED <<redisQueue, wlog>>
            ELSE PresenceMiss(i, [t1 EXCEPT !.readySeen = "yes"],
                              redisQueue, mem)
  /\ UNCHANGED <<redisConfigured, nodeEnv, server, raw, formatted, redisLink, now, redisData>>
  /\ UNCHANGED upVars
  /\ UNCHANGED sockVars

\* api.js:68-93  GET /presence/:userId?guildId= with the numeric ids of u
\* and g
GetPresenceRequestWith(h, u, g) ==
  GetPresenceRequestFrom(h, u, g, ParamsOf(u, g))

\* GET /presence/:userId with the header 'Bot <token>'
GetPresenceRequest(u, g) == GetPresenceRequestWith(ValidHeader, u, g)

\* api.js:86-92: the route's getCachedPresence settled (Redis)
GetPresenceRouteRead(i, ok) ==
  /\ tasks[i].kind = "getPresence" /\ tasks[i].pc = "routeCache"
  /\ Answered(i)
  /\ LET key == PresenceKey(tasks[i].userId)
         r == RedisRead(key, ok)
         t1 == ReadReturned(tasks[i], key, r, ok)
     IN IF PresenceHit(r, tasks[i].guildId)
          THEN /\ Continue(i, Respond(t1, 200, ResJson(r)))
               /\ redisQueue' = Dequeue
        ELSE IF ~ready
          THEN /\ Continue(i, NotReady(t1))
               /\ redisQueue' = Dequeue
        ELSE /\ Continue(i, [t1 EXCEPT !.pc = "svcCache", !.readySeen = "yes"])
             /\ redisQueue' = Append(Dequeue, GetCmd(i, key))
  /\ UNCHANGED <<redisConfigured, nodeEnv, server, raw, formatted, redisLink, now, memoryCache, redisData, wlog, spawned>>
  /\ UNCHANGED upVars
  /\ UNCHANGED sockVars

\* part_001:274-296: getPresence's own getCachedPresence settled (Redis)
GetPresenceSvcRead(i, ok) ==
  /\ tasks[i].kind = "getPresence" /\ tasks[i].pc = "svcCache"
  /\ Answered(i)
  /\ LET r == RedisRead(PresenceKey(tasks[i].userId), ok)
     IN IF r # Null
          THEN /\ Continue(i, Respond(tasks[i], 200, ResJson(r)))
               /\ redisQueue' = Dequeue
               /\ UNCHANGED <<memoryCache, wlog>>
          ELSE PresenceMiss(i, tasks[i], Dequeue, memoryCache)
  /\ UNCHANGED <<redisConfigured, nodeEnv, server, raw, formatted, redisLink, now, redisData, spawned>>
  /\ UNCHANGED upVars
  /\ UNCHANGED sockVars

\* part_001:281-296: guild.members.fetch(userId).catch(() => null) settled;
\* the member's presence if it has one, else client.presences.cache
GetPresenceMember(i, found) ==
  /\ tasks[i].kind = "getPresence" /\ tasks[i].pc = "memberFetch"
  /\ LET u == tasks[i].userId
         memberPresence ==
           IF found /\ upPresence[u] # Null
                    /\ upPresence[u].guild = tasks[i].guildId
             THEN upPresence[u] ELSE Null
     IN PresenceFromUpstream(i, tasks[i], redisQueue, memoryCache,
                             IF memberPresence # Null THEN memberPresence
                                                     ELSE upPresence[u])
  /\ UNCHANGED <<redisConfigured, nodeEnv, server, raw, formatted, redisLink, now, redisData, spawned>>
  /\ UNCHANGED upVars
  /\ UNCHANGED sockVars

\* part_001:284-285 / 294-295, api.js:93: cachePresence settled
GetPresenceCached(i, ok) ==
  /\ tasks[i].kind = "getPresence" /\ tasks[i].pc = "awaitSet"
  /\ Answered(i)
  /\ LET key == PresenceKey(tasks[i].userId)
         data == tasks[i].val
     IN /\ redisQueue' = Dequeue
        /\ memoryCache' = SettleMem(key, data, ok)
        /\ redisData' = SettleRedis(key, data, ok)
        /\ wlog' = LogReturn(key, tasks[i].wseq)
        /\ Continue(i, [Respond(tasks[i], 200, ResJson(data)) EXCEPT
                          !.set = IF ok THEN "ok" ELSE "failed"])
  /\ UNCHANGED <<redisConfigured, nodeEnv, server, raw, formatted, redisLink, now, spawned>>
  /\ UNCHANGED upVars
  /\ UNCHANGED sockVars

\* ---------------------------------------------------------- specifications
PresenceEventStep ==
  \/ \E u \in Users, g \in BotGuilds : PresenceUpdate(u, g)
  \/ \E i \in Slots, ok \in BOOLEAN : PresenceUpdateCached(i, ok)

UserEventStep ==
  \/ \E u \in Users : UserUpdate(u)
  \/ \E i \in Slots, ok \in BOOLEAN : UserUpdateCached(i, ok)

SocketStep ==
  \/ \E s \in Sockets : Connect(s)
  \/ \E s \in Sockets, token \in Tokens : Authenticate(s, token)
  \/ \E s \in Sockets, u \in Users : SubscribeUser(s, u)
  \/ \E s \in Sockets : Disconnect(s)

\* the steps of a user read after its first await
UserReadOnStep ==
  \/ \E i \in Slots, ok \in BOOLEAN : GetUserRouteRead(i, ok)
  \/ \E i \in Slots, ok \in BOOLEAN : GetUserSvcRead(i, ok)
  \/ \E i \in Slots, fails \in BOOLEAN : GetUserFetched(i, fails)
  \/ \E i \in Slots, ok \in BOOLEAN : GetUserCached(i, ok)

UserReadStep ==
  \/ \E u \in Users : GetUserRequest(u)
  \/ UserReadOnStep

\* the steps of a presence read after its first await
PresenceReadOnStep ==
  \/ \E i \in Slots, ok \in BOOLEAN : GetPresenceRouteRead(i, ok)
  \/ \E i \in Slots, ok \in BOOLEAN : GetPresenceSvcRead(i, ok)
  \/ \E i \in Slots, found \in BOOLEAN : GetPresenceMember(i, found)
  \/ \E i \in Slots, ok \in BOOLEAN : GetPresenceCached(i, ok)

PresenceReadStep ==
  \/ \E u \in Users, g \in GuildIds : GetPresenceRequest(u, g)
  \/ PresenceReadOnStep

UpstreamStep == ClientReady \/ ClientDisconnect

\* the event path and the subscribers
NextWs == PresenceEventStep \/ UserEventStep \/ SocketStep
SpecWs == Init /\ [][NextWs]_vars

\* user events and user reads
Next == UserEventStep \/ UserReadStep \/ UpstreamStep \/ Tick
Spec == Init /\ [][Next]_vars

\* presence events and presence reads
NextPresence == PresenceEventStep \/ PresenceReadStep \/ UpstreamStep \/ Tick
SpecPresence == Init /\ [][NextPresence]_vars

\* presence reads by guild: the events also include presences that carry no
\* guild (part_001:242  presence.guild?.id || null)
EventGuilds == BotGuilds \cup {"null"}

PresenceEventAnyGuildStep ==
  \/ \E u \in Users, g \in EventGuilds : PresenceUpdate(u, g)
  \/ \E i \in Slots, ok \in BOOLEAN : PresenceUpdateCached(i, ok)

NextContext == PresenceEventAnyGuildStep \/ PresenceReadStep \/ ClientReady
SpecContext == Init /\ [][NextContext]_vars

\* events without an identifier, and subscribers; a client may send
\* subscribe_user without a userId and joins room `user_undefined`
MalformedEventStep ==
  \/ PresenceUpdateNoUserId
  \/ \E hasCreatedAt \in BOOLEAN : UserUpdateNoId(hasCreatedAt)
  \/ \E i \in Slots, ok \in BOOLEAN : UserUpdateCached(i, ok)

SocketAnyIdStep ==
  \/ \E s \in Sockets : Connect(s)
  \/ \E s \in Sockets, token \in Tokens : Authenticate(s, token)
  \/ \E s \in Sockets, u \in Ids : SubscribeUser(s, u)
  \/ \E s \in Sockets : Disconnect(s)

NextMalformed == MalformedEventStep \/ SocketAnyIdStep
SpecMalformed == Init /\ [][NextMalformed]_vars

\* ------------------------------------------------------------ REST routes
\* api.js:24-26: checkBotAuth answers 401 and the route handler is not run
UnauthorizedFrom(kind, h, u, p) ==
  /\ CanSpawn
  /\ Spawn(Respond([NewTask(kind, u) EXCEPT !.auth = h, !.params = p], 401,
                   UnauthorizedBody))
  /\ UNCHANGED <<redisConfigured, nodeEnv, server, raw, formatted, redisLink, now>>
  /\ UNCHANGED cacheVars
  /\ UNCHANGED upVars
  /\ UNCHANGED sockVars

Unauthorized(kind, h, u) == UnauthorizedFrom(kind, h, u, ParamsOf(u, "null"))

\* api.js:32  router.get('/users/:userId', checkBotAuth, ...)
UsersRoute(h, u) ==
  IF checkBotAuth(h) THEN GetUserRequestWith(h, u)
                     ELSE Unauthorized("getUser", h, u)

\* api.js:68  router.get('/presence/:userId', checkBotAuth, ...)
PresenceRoute(h, u, g) ==
  IF checkBotAuth(h) THEN GetPresenceRequestWith(h, u, g)
                     ELSE Unauthorized("getPresence", h, u)

\* part_001:312-314  isConnected(); wsReady is client.ws.status === 0
isConnected(wsReady) == ready /\ wsReady

\* api.js:105-123  router.get('/health', ...): no checkBotAuth.  The body
\* leaves out timestamp, uptime, memory and version.
HealthRoute(h, wsReady) ==
  /\ CanSpawn
  /\ LET health == [status |-> "healthy",
                    discord |-> IF isConnected(wsReady) THEN "connected"
                                                        ELSE "disconnected",
                    ready |-> ready,
                    guilds |-> Cardinality(BotGuilds),
                    redis |-> IF redisConfigured THEN "connected"
                                                 ELSE "disconnected"]
     IN Spawn(Respond([NewTask("health", Undefined) EXCEPT
                         !.auth = h,
                         !.readySeen = IF ready THEN "yes" ELSE "no"],
                      200, ResJson(health)))
  /\ UNCHANGED <<redisConfigured, nodeEnv, server, raw, formatted, redisLink, now>>
  /\ UNCHANGED cacheVars
  /\ UNCHANGED upVars
  /\ UNCHANGED sockVars

\* api.js:135-155  router.get('/guilds', checkBotAuth, ...)
GuildsRoute(h, wsReady) ==
  IF ~checkBotAuth(h) THEN Unauthorized("guilds", h, Undefined)
  ELSE
    /\ CanSpawn
    /\ LET t == [NewTask("guilds", Undefined) EXCEPT
                   !.auth = h,
                   !.readySeen = IF ready THEN "yes" ELSE "no"]
       IN Spawn(IF ~isConnected(wsReady)
                  THEN Respond(t, 503,
                         ResJson([error |-> "Discord client not connected"]))
                  ELSE Respond(t, 200,
                         ResJson([guilds |-> BotGuilds,
                                  total |-> Cardinality(BotGuilds)])))
    /\ UNCHANGED <<redisConfigured, nodeEnv, server, raw, formatted, redisLink, now>>
    /\ UNCHANGED cacheVars
    /\ UNCHANGED upVars
    /\ UNCHANGED sockVars

RouteStep ==
  \/ \E h \in OtherHeaders, u \in Users : UsersRoute(h, u)
  \/ \E h \in OtherHeaders, u \in Users, g \in GuildIds : PresenceRoute(h, u, g)
  \/ \E h \in OtherHeaders, wsReady \in BOOLEAN : HealthRoute(h, wsReady)
  \/ \E h \in OtherHeaders, wsReady \in BOOLEAN : GuildsRoute(h, wsReady)

\* the four REST routes, requests whose header is not 'Bot <token>'
NextAuth ==
  \/ RouteStep
  \/ UserReadOnStep
  \/ PresenceReadOnStep
  \/ PresenceEventStep
  \/ ClientReady
SpecAuth == Init /\ [][NextAuth]_vars

\* ------------------------------------------------- request parameters
Digits == {"0", "1", "2", "3", "4", "5", "6", "7", "8", "9"}
\* /^\d+$/.test(s): one or more characters, every one a digit
TestDigits(s) == Len(s) > 0 /\ \A j \in 1..Len(s) : s[j] \in Digits

\* api.js:36 / 73: the request goes on unless (!userId || !/^\d+$/.test(userId))
validUserId(p) == ~(p.userId = << >> \/ ~TestDigits(p.userId))
\* api.js:79: the request goes on unless (guildId && !/^\d+$/.test(guildId));
\* a guildId that is undefined or the empty string is falsy
validGuildIdAny(p) == TRUE
validGuildId(p) ==
  ~(p.hasGuild /\ p.guildId # << >> /\ ~TestDigits(p.guildId))

\* the user and the guild that the parameters name to the cache and to the
\* upstream client; a guild id other than "1" names a guild the bot is not
\* in, and the empty guildId stays the empty string
UserOf(s) ==
  IF \E u \in Users : IdString(u) = s
    THEN CHOOSE u \in Users : IdString(u) = s
    ELSE Undefined
GuildOf(p) ==
  IF ~p.hasGuild THEN "null"
  ELSE IF p.guildId = << >> THEN ""
  ELSE IF p.guildId = <<"1">> THEN "g1"
  ELSE "g2"

\* api.js:37-39 / 74-76 / 80-82: res.status(400).json({error}) and return
BadRequest(kind, h, p, message) ==
  /\ CanSpawn
  /\ Spawn(Respond([NewTask(kind, UserOf(p.userId)) EXCEPT
                      !.auth = h, !.params = p, !.guildId = GuildOf(p)],
                   400, ResJson([error |-> message])))
  /\ UNCHANGED <<redisConfigured, nodeEnv, server, raw, formatted, redisLink, now>>
  /\ UNCHANGED cacheVars
  /\ UNCHANGED upVars
  /\ UNCHANGED sockVars

\* api.js:32-50  GET /users/:userId with any userId
GetUsersUserId(h, p) ==
  IF ~checkBotAuth(h)
    THEN UnauthorizedFrom("getUser", h, UserOf(p.userId), p)
  ELSE IF ~validUserId(p)
    THEN BadRequest("getUser", h, p,
                    "Invalid user ID. Must be a numeric Discord user ID.")
  ELSE GetUserRequestFrom(h, UserOf(p.userId), p)

\* api.js:68-93  GET /presence/:userId?guildId= with any userId and guildId
GetPresenceUserId(h, p) ==
  IF ~checkBotAuth(h)
    THEN UnauthorizedFrom("getPresence", h, UserOf(p.userId), p)
  ELSE IF ~validUserId(p)
    THEN BadRequest("getPresence", h, p,
                    "Invalid user ID. Must be a numeric Discord user ID.")
  ELSE IF ~validGuildId(p)
    THEN BadRequest("getPresence", h, p,
                    "Invalid guild ID. Must be a numeric Discord guild ID.")
  ELSE GetPresenceRequestFrom(h, UserOf(p.userId), GuildOf(p), p)

\* the userId of a path (never empty: the route would not match) and the
\* guildId of a query
PathUserIds == {<<"1">>, <<"a">>, <<"1", "a">>}
QueryGuildIds == {<< >>, <<"1">>, <<"2">>, <<"a">>}
UserParams == {[NoParams EXCEPT !.userId = s] : s \in PathUserIds}
PresenceParams ==
  UserParams \cup
  {[userId |-> s, hasGuild |-> TRUE, guildId |-> g] :
     s \in PathUserIds, g \in QueryGuildIds}
Headers == {ValidHeader, NoHeader}

ParamsStep ==
  \/ \E h \in Headers, p \in UserParams : GetUsersUserId(h, p)
  \/ \E h \in Headers, p \in PresenceParams : GetPresenceUserId(h, p)

NextParams ==
  \/ ParamsStep
  \/ UserReadOnStep
  \/ PresenceReadOnStep
  \/ PresenceEventStep
  \/ ClientReady
SpecParams == Init /\ [][NextParams]_vars

\* ------------------------------------------------------------ invalidation
DelCmd(i, key) == [task |-> i, op |-> "del", key |-> key, val |-> Null]

\* cache.js:109-110  memoryCache.delete(userKey); memoryCache.delete(presenceKey)
memoryDelete(mem, u) ==
  [mem EXCEPT ![UserKey(u)] = Null, ![PresenceKey(u)] = Null]

\* cache.js:98-113  invalidateUser(userId), up to the awaited Promise.all:
\* with Redis the two del commands are sent, else both map entries go
InvalidateUser(u) ==
  /\ CanSpawn
  /\ LET i == spawned + 1
         t == [NewTask("invalidate", u) EXCEPT
                 !.invSnap = <<wlog[UserKey(u)].seq, wlog[PresenceKey(u)].seq>>]
     IN IF redisConfigured
          THEN /\ redisQueue' = Append(Append(redisQueue, DelCmd(i, UserKey(u))),
                                       DelCmd(i, PresenceKey(u)))
               /\ Spawn([t EXCEPT !.pc = "awaitDel", !.set = "pending"])
               /\ UNCHANGED memoryCache
          ELSE /\ memoryCache' = memoryDelete(memoryCache, u)
               /\ Spawn(t)
               /\ UNCHANGED redisQueue
  /\ UNCHANGED <<redisConfigured, nodeEnv, server, raw, formatted, redisLink, now, redisData, wlog>>
  /\ UNCHANGED upVars
  /\ UNCHANGED sockVars

\* cache.js:104-107, 114-116: one of the two del commands settled.  A
\* rejected del is logged by the catch; the call is over when both settled.
InvalidateSettled(i, ok) ==
  /\ tasks[i].kind = "invalidate" /\ tasks[i].pc = "awaitDel"
  /\ Answered(i)
  /\ LET c == redisQueue[RedisNext(redisQueue)]
         more == \E j \in 1..Len(Dequeue) : Dequeue[j].task = i
         failed == ~ok \/ tasks[i].set = "failed"
     IN /\ redisData' = IF ok THEN [redisData EXCEPT ![c.key] = Null]
                              ELSE redisData
        /\ redisQueue' = Dequeue
        /\ Continue(i, [tasks[i] EXCEPT
                          !.pc = IF more THEN "awaitDel" ELSE "done",
                          !.set = IF failed THEN "failed"
                                  ELSE IF more THEN "pending" ELSE "ok"])
  /\ UNCHANGED <<redisConfigured, nodeEnv, server, raw, formatted, redisLink, now, memoryCache, wlog, spawned>>
  /\ UNCHANGED upVars
  /\ UNCHANGED sockVars

InvalidateStep ==
  \/ \E u \in Users : InvalidateUser(u)
  \/ \E i \in Slots, ok \in BOOLEAN : InvalidateSettled(i, ok)

\* events and invalidations
NextInvalidate == PresenceEventStep \/ UserEventStep \/ InvalidateStep
SpecInvalidate == Init /\ [][NextInvalidate]_vars

\* index.js:51-78 registers listeners for authenticate, subscribe_user and
\* disconnect only: a client's request to leave one topic (whatever event
\* name it uses) has no listener and changes nothing on the server
UnsubscribeUser(s, u) ==
  /\ sockState[s] = "open"
  /\ authenticated[s]
  /\ asked' = [asked EXCEPT ![<<s, u>>] = "leave"]
  /\ UNCHANGED <<redisConfigured, nodeEnv, server, raw, formatted, redisLink, now, sockState, authenticated,
                 authedBy, rooms, inbox>>
  /\ UNCHANGED taskVars
  /\ UNCHANGED cacheVars
  /\ UNCHANGED upVars

\* subscribers that also ask to leave single topics
TopicStep ==
  \/ SocketStep
  \/ \E s \in Sockets, u \in Users : UnsubscribeUser(s, u)

NextTopics == TopicStep
SpecTopics == Init /\ [][NextTopics]_vars

\* user reads and their error responses, in either environment
NextErrors == UserReadStep \/ UpstreamStep
SpecErrors == InitAnyEnv /\ [][NextErrors]_vars

\* ------------------------------------------------- broadcasts and reads
\* one client that connects, authenticates with the bot token and
\* subscribes to user 1
SubscriberStep ==
  \/ Connect(1)
  \/ Authenticate(1, DISCORD_BOT_TOKEN)
  \/ SubscribeUser(1, 1)

\* presence reads that name no guild, or a guild the bot is in
PresenceReadBotGuildStep ==
  \/ \E u \in Users, g \in BotGuilds \cup {"null"} : GetPresenceRequest(u, g)
  \/ PresenceReadOnStep

\* presence events, a subscriber, and presence reads; the clock stands
\* still, so no entry expires
NextBroadcast ==
  \/ PresenceEventStep
  \/ SubscriberStep
  \/ PresenceReadBotGuildStep
  \/ ClientReady
SpecBroadcast == Init /\ [][NextBroadcast]_vars

\* ------------------------------------------- events and the Redis link
\* The connection of the Redis client.  "up": commands are answered, or
\* rejected with an error reply.  "down": the socket is closed and the client
\* reconnects (part_002:13-19); commands wait in its queue, and are rejected
\* when reconnectStrategy gives up after 10 retries.  "silent": the socket is
\* open and the server does not answer; setEx is called without a timeout
\* (cache.js:31, 67) and the client sets none (part_002:10-21), so the
\* promise of a command stays pending.
RedisLinkStep ==
  \/ /\ redisConfigured /\ redisLink = "up"
     /\ redisLink' \in {"down", "silent"}
     /\ UNCHANGED <<redisConfigured, nodeEnv, server, raw, formatted, now>>
     /\ UNCHANGED taskVars
     /\ UNCHANGED cacheVars
     /\ UNCHANGED upVars
     /\ UNCHANGED sockVars
  \/ /\ redisConfigured /\ redisLink \in {"down", "silent"}
     /\ redisLink' = "up"
     /\ UNCHANGED <<redisConfigured, nodeEnv, server, raw, formatted, now>>
     /\ UNCHANGED taskVars
     /\ UNCHANGED cacheVars
     /\ UNCHANGED upVars
     /\ UNCHANGED sockVars

\* a command can be answered ok on a link that is up, and rejected on a link
\* that is up or down
CanSettle(ok) ==
  IF ok THEN redisLink = "up" ELSE redisLink \in {"up", "down"}

\* part_001:151-158: the awaited cachePresence of an event handler settles
PresenceEventSettles ==
  \E i \in Slots, ok \in BOOLEAN : CanSettle(ok) /\ PresenceUpdateCached(i, ok)

NextLive ==
  \/ \E u \in Users, g \in BotGuilds : PresenceUpdate(u, g)
  \/ PresenceEventSettles
  \/ RedisLinkStep
  \/ SubscriberStep

\* A command that can settle again and again does settle: Redis answers
\* the commands it has received whenever the link is up, and the client
\* rejects the queued commands when it gives up reconnecting; the handler
\* then runs on (the event loop is never idle with a settled promise).
SpecLive == Init /\ [][NextLive]_vars /\ SF_vars(PresenceEventSettles)

\* ------------------------------------------- the configured bot token
\* process.env.DISCORD_BOT_TOKEN: set, or unset (undefined).  startServer
\* goes on to server.listen when the login without a token fails
\* (index.js:90-95).
BotTokenConfigs == {DISCORD_BOT_TOKEN, "undefined"}

\* what a client may send with authenticate: a token, or nothing, in which
\* case the listener's parameter is undefined (index.js:54)
ClientTokens == Tokens \cup {"undefined"}

InitTokens ==
  /\ redisConfigured \in BOOLEAN
  /\ \E tok \in BotTokenConfigs :
       server = [Server(redisConfigured, "listening",
                        IF redisConfigured THEN "ok" ELSE "none") EXCEPT
                   !.DISCORD_BOT_TOKEN = tok]
  /\ raw = NoRaw
  /\ nodeEnv = "production"
  /\ Fresh

SocketAnyTokenStep ==
  \/ \E s \in Sockets : Connect(s)
  \/ \E s \in Sockets, token \in ClientTokens : Authenticate(s, token)
  \/ \E s \in Sockets, u \in Users : SubscribeUser(s, u)
  \/ \E s \in Sockets : Disconnect(s)

\* presence events and subscribers, with the bot token set or unset
NextTokens == PresenceEventStep \/ SocketAnyTokenStep
SpecTokens == InitTokens /\ [][NextTokens]_vars

\* ------------------------------------------------- upstream reconnects
\* user reads while the upstream client gets ready, disconnects and gets
\* ready again
NextRecover == UserReadStep \/ UpstreamStep \/ ClientReadyAgain
SpecRecover == Init /\ [][NextRecover]_vars

\* ------------------------------------------------------- the sweep timer
\* user events and the cache read of user requests, over a time long enough
\* for the sweep to meet expired entries (the timer fires at CACHE_TTL and
\* at 2 * CACHE_TTL)
NextSweep ==
  \/ UserEventStep
  \/ \E u \in Users : GetUserRequest(u)
  \/ \E i \in Slots, ok \in BOOLEAN : GetUserRouteRead(i, ok)
  \/ TickUpTo(MaxSweepTicks)
SpecSweep == Init /\ [][NextSweep]_vars

\* ------------------------------------------------- the normalizers alone
\* Raw values as discord.js hands them over.  A hash is null or a string.
Hashes == {JsNull, "a1b2"}
RawUsers ==
  {[id |-> u, username |-> 0, avatar |-> av, banner |-> bn,
    verified |-> "undefined"] : u \in Users, av \in Hashes, bn \in Hashes}

\* an activity with nothing but a name; one with every optional part; one
\* whose optional parts are empty or null
ActivityPlain ==
  [name |-> "game", details |-> "undefined", state |-> "undefined",
   applicationId |-> "undefined", assets |-> Null, timestamps |-> Null]
ActivityRich ==
  [name |-> "music", details |-> "track", state |-> "artist",
   applicationId |-> "app",
   assets |-> [largeImage |-> "cover", largeText |-> "undefined",
               smallImage |-> JsNull, smallText |-> "playing"],
   timestamps |-> [start |-> "t1", end |-> JsNull]]
ActivityEmpty ==
  [name |-> "custom", details |-> "", state |-> "away",
   applicationId |-> JsNull,
   assets |-> [largeImage |-> "undefined", largeText |-> "",
               smallImage |-> "undefined", smallText |-> JsNull],
   timestamps |-> Null]
RawActivities == {ActivityPlain, ActivityRich, ActivityEmpty}

\* the arrays of at most n raw activities
ActivityArrays(n) ==
  UNION {[1..len -> RawActivities] : len \in 0..n}

RawPresences ==
  {[userId |-> 1, status |-> 1, activities |-> arr, guild |-> "g1"] :
     arr \in ActivityArrays(MaxActivities)}

\* a process that holds one raw user and one raw presence
InitNormalize ==
  /\ redisConfigured = FALSE
  /\ server = Server(FALSE, "listening", "none")
  /\ nodeEnv = "production"
  /\ raw \in [user : RawUsers, presence : RawPresences]
  /\ Fresh

\* a call this.formatUser(raw.user) (part_001:170, 258)
FormatUserCall ==
  /\ Len(formatted) < MaxCalls
  /\ formatted' = Append(formatted, [fn |-> "formatUser", at |-> now,
                                     out |-> formatUser(raw.user)])
  /\ UNCHANGED <<redisConfigured, nodeEnv, server, raw, redisLink, now>>
  /\ UNCHANGED taskVars
  /\ UNCHANGED cacheVars
  /\ UNCHANGED upVars
  /\ UNCHANGED sockVars

\* a call this.formatPresence(raw.presence) (part_001:150, 283, 293)
FormatPresenceCall ==
  /\ Len(formatted) < MaxCalls
  /\ formatted' = Append(formatted, [fn |-> "formatPresence", at |-> now,
                                     out |-> formatPresence(raw.presence, now)])
  /\ UNCHANGED <<redisConfigured, nodeEnv, server, raw, redisLink, now>>
  /\ UNCHANGED taskVars
  /\ UNCHANGED cacheVars
  /\ UNCHANGED upVars
  /\ UNCHANGED sockVars

\* calls of the normalizers as time passes
NextNormalize == FormatUserCall \/ FormatPresenceCall \/ Tick
SpecNormalize == InitNormalize /\ [][NextNormalize]_vars

\* ---------------------------------------------------------------- startup
\* the process when startServer() is called (index.js:122): REDIS_URL is set
\* or not, global.redisClient is not set yet
InitStartup ==
  /\ redisConfigured = FALSE
  /\ server \in {Server(url, "starting", "none") : url \in BOOLEAN}
  /\ raw = NoRaw
  /\ nodeEnv = "production"
  /\ Fresh

\* index.js:82-87: with REDIS_URL set, connectRedis() is awaited
StartServer ==
  /\ server.phase = "starting"
  /\ server' = [server EXCEPT
                  !.phase = IF server.REDIS_URL THEN "connectRedis"
                                                ELSE "discordInit",
                  !.connect = IF server.REDIS_URL THEN "pending" ELSE "none"]
  /\ UNCHANGED <<redisConfigured, nodeEnv, raw, formatted, redisLink, now>>
  /\ UNCHANGED taskVars
  /\ UNCHANGED cacheVars
  /\ UNCHANGED upVars
  /\ UNCHANGED sockVars

\* part_002:39-47 and index.js:85-86, 104-107: connect() and ping() settled.
\* On success global.redisClient is set (part_002:42).  On failure the catch
\* of connectRedis logs and rethrows (part_002:44-47); the throw leaves the
\* try block of startServer, whose catch calls process.exit(1).
ConnectRedisSettled(ok) ==
  /\ server.phase = "connectRedis"
  /\ redisConfigured' = ok
  /\ server' = [server EXCEPT
                  !.phase = IF ok THEN "discordInit" ELSE "exited",
                  !.connect = IF ok THEN "ok" ELSE "failed"]
  /\ UNCHANGED <<nodeEnv, raw, formatted, redisLink, now>>
  /\ UNCHANGED taskVars
  /\ UNCHANGED cacheVars
  /\ UNCHANGED upVars
  /\ UNCHANGED sockVars

\* index.js:89-103: DiscordClient.init settled; a failure is logged by the
\* inner catch (93-95), and in either case server.listen is called
DiscordInitSettled ==
  /\ server.phase = "discordInit"
  /\ server' = [server EXCEPT !.phase = "listening"]
  /\ UNCHANGED <<redisConfigured, nodeEnv, raw, formatted, redisLink, now>>
  /\ UNCHANGED taskVars
  /\ UNCHANGED cacheVars
  /\ UNCHANGED upVars
  /\ UNCHANGED sockVars

StartupStep ==
  \/ StartServer
  \/ \E ok \in BOOLEAN : ConnectRedisSettled(ok)
  \/ DiscordInitSettled

\* requests and events are served once the server listens
ServeStep ==
  /\ server.phase = "listening"
  /\ (UserEventStep \/ UserReadStep \/ ClientReady)

\* startup, then user events and user reads
NextStartup == StartupStep \/ ServeStep
SpecStartup == InitStartup /\ [][NextStartup]_vars

\* ------------------------------------------------------------- properties
\* the tasks whose record can be read: those in flight and the one that
\* ended last
Observed == {tasks[i] : i \in Slots} \cup {last}

KeyOf(t) ==
  IF t.kind \in {"userUpdate", "getUser"} THEN UserKey(t.userId)
                                          ELSE PresenceKey(t.userId)

IsEvent(t) == t.kind \in {"presenceUpdate", "userUpdate"}

\* the route's getCachedUser / getCachedPresence call of t has returned
HasRead(t) == t.kind \in {"getUser", "getPresence"} /\ t.rdDone

\* the call started after the write issued last to its key had returned, and
\* no write to the key was issued while it ran
ReadAfterWrite(t) ==
  HasRead(t) /\ t.rdSnap.seq > 0 /\ t.rdSnap.returned /\ t.rdQuiet

WithinTTL(t) == t.rdAt - t.rdSnap.retAt < CACHE_TTL
PastTTL(t) == t.rdAt - t.rdSnap.retAt > CACHE_TTL

\* equal as JSON values, which is what a caller of the API can see
JsonEq(a, b) == ResJson(a) = ResJson(b)

\* how many times socket s received the broadcast of the event task t
Received(s, t) ==
  Cardinality({k \in 1..Len(inbox[s]) :
                 /\ inbox[s][k].event = t.kind
                 /\ MsgVer(inbox[s][k]) = MsgVer([event |-> t.kind,
                                                  data |-> t.val])})

\* C1: once a cache write of v to a key has returned (no other write to the
\* key overlapping it), a later read of the key returns v while less than
\* the TTL has passed since the write, and absent once more than the TTL has
\* passed, for each backend and also when Redis calls fail.
C1_ReadYourWrite ==
  \A t \in Observed :
    (ReadAfterWrite(t) /\ ~t.rdSnap.overlapped) =>
      /\ WithinTTL(t) => JsonEq(t.rdRes, t.rdSnap.val)
      /\ PastTTL(t) => t.rdRes = Null

\* C2: a cache write whose Redis setEx was rejected still returns normally,
\* and the value is in the in-process store under the same key.
C2_WriteNeverFails ==
  last.set = "failed" =>
    /\ last.pc = "done" /\ last.error = "none"
    /\ memoryCache[KeyOf(last)] # Null
    /\ memoryCache[KeyOf(last)].data = last.val

\* C2 witness: Redis is configured, the setEx of the last handler was
\* rejected, and the in-process store holds its value.
C2_Witness ==
  /\ redisConfigured
  /\ last.set = "failed"
  /\ memoryCache[KeyOf(last)] # Null
  /\ memoryCache[KeyOf(last)].data = last.val

\* C3: a cache read whose Redis get was rejected returns what the
\* in-process store holds for the key (its fresh entry, or absent).
C3_ReadFailureFallsBack ==
  \A t \in Observed :
    (HasRead(t) /\ t.rdFailed) => JsonEq(t.rdRes, t.fbView)

\* C4: whatever the interleaving of the writes to a key, a read within the
\* TTL that starts after they all returned gives the value of the write
\* issued last.
C4_LastWriteWins ==
  \A t \in Observed :
    (ReadAfterWrite(t) /\ WithinTTL(t)) => JsonEq(t.rdRes, t.rdSnap.val)

\* C5: a presence update pushed for user u reaches every connection that had
\* subscribed to u when it arrived and is still connected, exactly once and
\* with userId u; a connected socket that is not subscribed to u does not
\* get it, and nobody gets a broadcast twice.
C5_PresenceFanOut ==
  /\ \A s \in Sockets : \A j \in 1..Len(inbox[s]), k \in 1..Len(inbox[s]) :
       (j < k /\ inbox[s][j].event = inbox[s][k].event)
         => MsgVer(inbox[s][j]) # MsgVer(inbox[s][k])
  /\ last.kind = "presenceUpdate" =>
       \A s \in Sockets :
         /\ (s \in last.subsAtArrival /\ sockState[s] = "open")
              => Received(s, last) = 1
         /\ (sockState[s] = "open" /\ <<s, last.userId>> \notin rooms)
              => Received(s, last) = 0
         /\ \A k \in 1..Len(inbox[s]) :
              (inbox[s][k].event = "presenceUpdate"
                 /\ MsgVer(inbox[s][k]) = last.val.status)
                => inbox[s][k].userId = last.userId

\* C5 witness: a finished presence event, received once by a subscriber of
\* its user and not at all by a connected subscriber of the other user only.
C5_Witness ==
  \E s1 \in Sockets, s2 \in Sockets :
    /\ last.kind = "presenceUpdate"
    /\ s1 \in last.subsAtArrival /\ sockState[s1] = "open"
    /\ Received(s1, last) = 1
    /\ sockState[s2] = "open"
    /\ \E u \in Users : u # last.userId /\ <<s2, u>> \in rooms
    /\ <<s2, last.userId>> \notin rooms
    /\ Received(s2, last) = 0

\* C6: a connection that was torn down is a member of no user topic, and
\* nothing is delivered to it from then on.
C6_NoMembershipAfterTeardown ==
  [][\A s \in Sockets : sockState'[s] = "closed" =>
       /\ \A u \in Users : <<s, u>> \notin rooms'
       /\ sockState[s] = "closed" => inbox'[s] = inbox[s]]_vars

\* C6 witness: a connection that was a member of a topic when an event of
\* that topic arrived, was closed before the broadcast and did not get it.
C6_Witness ==
  \E s \in Sockets :
    /\ IsEvent(last)
    /\ s \in last.subsAtArrival
    /\ sockState[s] = "closed"
    /\ Received(s, last) = 0

\* C7: the broadcasts about one user reach every subscriber in the order in
\* which the upstream events arrived.
C7_BroadcastOrder ==
  \A s \in Sockets : \A j \in 1..Len(inbox[s]), k \in 1..Len(inbox[s]) :
    (j < k /\ inbox[s][j].userId = inbox[s][k].userId)
      => MsgVer(inbox[s][j]) < MsgVer(inbox[s][k])

\* C7 witness: two events about one user whose handlers overlapped (the
\* second arrived while the first awaited its cache write), both received
\* by one subscriber.
C7_Witness ==
  \E s \in Sockets :
    /\ IsEvent(last) /\ last.queuedBehind >= 1
    /\ Len(inbox[s]) >= 2
    /\ inbox[s][Len(inbox[s])].userId = last.userId
    /\ inbox[s][Len(inbox[s]) - 1].userId = last.userId
    /\ MsgVer(inbox[s][Len(inbox[s])]) = MsgVer([event |-> last.kind,
                                                 data |-> last.val])

\* C8: a getUser that starts after a cache-miss getUser of the same id
\* fetched, stored and returned the record, within the TTL and with no
\* other write in between, makes no upstream fetch and returns the same
\* record (the upstream being ready whenever it is asked).
C8_CacheAside ==
  \A t \in Observed :
    (t.kind = "getUser" /\ ReadAfterWrite(t) /\ t.rdSnap.by = "getUser"
       /\ WithinTTL(t) /\ t.readySeen # "no") =>
      /\ t.fetches = 0
      /\ t.pc = "done" => (t.status = 200 /\ t.body = ResJson(t.rdSnap.val))

\* C9: however many getUser calls for one id run during a cache miss, at
\* most two upstream fetches for that id are in flight.
C9_BoundedFetches ==
  \A u \in Users :
    Cardinality({i \in Slots : /\ tasks[i].kind = "getUser"
                               /\ tasks[i].userId = u
                               /\ tasks[i].pc = "fetch"}) <= 2

\* C10: a presence read that finds nothing cached while the upstream is not
\* ready is answered with the synthesized offline record, not an error.
C10_OfflineWhenNotReady ==
  (last.kind = "getPresence" /\ last.rdDone /\ last.rdRes = Null
     /\ last.readySeen = "no") =>
    /\ last.status = 200
    /\ last.body = ResJson(OfflinePresence(last.userId, last.guildId))

\* C11: a presence read that names a guild the bot is in and finds a cached
\* record of another guild (or of none) is not answered before the member
\* lookup in the named guild was tried.
C11_ContextMismatchLooksUp ==
  \A t \in Observed :
    (/\ t.kind = "getPresence" /\ t.rdDone /\ t.rdRes # Null
     /\ t.guildId \in BotGuilds /\ t.rdRes.guildId # t.guildId
     /\ t.pc = "done" /\ t.status = 200)
      => t.fetches >= 1

\* C12: a getUser that finds nothing cached while the upstream is not ready
\* is answered with a response that is neither the NotFound response nor
\* the response of a generic internal failure, and it issues no cache write.
C12_UnavailableTellsApart ==
  \A t \in Observed :
    (t.kind = "getUser" /\ t.pc = "done" /\ t.readySeen = "no") =>
      /\ <<t.status, t.body>> # <<404, NotFoundBody>>
      /\ <<t.status, t.body>> # <<500, ErrorBody("getUser", "fetch failed")>>
      /\ t.wseq = 0

\* C13: a getUser that ends in an error (unknown or inaccessible user,
\* failed fetch, upstream not ready) leaves both stores and the command
\* queue as they were; and a getUser that arrives after such a failure and
\* finds the upstream ready is answered from a fetch of its own, or with a
\* record that a write put into the cache, never from the failure.
C13_NegativeNotCached ==
  [][/\ \A i \in Slots :
          (tasks[i].kind = "getUser" /\ tasks'[i] = NoTask
             /\ FailedGetUser(last', tasks[i].userId))
            => /\ memoryCache' = memoryCache
               /\ redisData' = redisData
               /\ wlog' = wlog
               /\ Len(redisQueue') <= Len(redisQueue)
     /\ (last'.kind = "getUser" /\ last'.afterFailure
           /\ last'.readySeen = "yes")
          => \/ last'.fetches >= 1
             \/ /\ last'.status = 200
                /\ wlog'[UserKey(last'.userId)].seq > 0]_vars

\* C13 witness: a getUser that arrived after a failed getUser for the same
\* id has fetched from the upstream again.
C13_Witness ==
  /\ last.kind = "getUser" /\ last.afterFailure
  /\ last.readySeen = "yes" /\ last.fetches >= 1

\* C14: a user read or a presence read (with or without a guildId) whose
\* cache lookup found a fresh entry is answered 200, whether the bot is
\* ready or not.
C14_CachedServedOffline ==
  \A t \in Observed :
    (HasRead(t) /\ t.rdRes # Null /\ t.pc = "done") => t.status = 200

\* C15: a step that changes the entry of a key in either store, or sends a
\* command for a key, is the step of an event about that key's user and of
\* that key's kind: a user event touches the user entry of its user only, a
\* presence event the presence entry of its user only.
C15_CachesIndependent ==
  [][/\ \A k \in Keys :
          (memoryCache'[k] # memoryCache[k] \/ redisData'[k] # redisData[k])
            => /\ last' # last
               /\ IsEvent(last')
               /\ k[1] = (IF last'.kind = "userUpdate" THEN "user"
                                                       ELSE "presence")
               /\ k[2] = last'.userId
     /\ Len(redisQueue') > Len(redisQueue)
          => LET c == redisQueue'[Len(redisQueue')]
                 t == tasks'[c.task]
             IN /\ IsEvent(t)
                /\ c.key[1] = (IF t.kind = "userUpdate" THEN "user"
                                                        ELSE "presence")
                /\ c.key[2] = t.userId]_vars

\* C15 witness: a user event for u was handled and cached while the
\* presence entry of u, written by an earlier presence event, is still the
\* one that event wrote.
C15_Witness ==
  LET u == last.userId
      held(k) == IF redisConfigured THEN redisData[k] # Null
                                    ELSE memoryCache[k] # Null
  IN /\ last.kind = "userUpdate" /\ last.set \in {"ok", "none"}
     /\ held(<<"user", u>>) /\ held(<<"presence", u>>)
     /\ wlog[<<"presence", u>>].seq = 1
     /\ wlog[<<"user", u>>].seq = 1

\* C16: an event that carries no user identifier causes no cache write
\* under any key and no broadcast, and no exception leaves its handler:
\* no store holds an entry and no command is queued for a key built from
\* the missing id, and no socket received a message without a userId.
C16_MalformedDropped ==
  /\ \A k \in Keys :
       k[2] = Undefined => (memoryCache[k] = Null /\ redisData[k] = Null)
  /\ \A j \in 1..Len(redisQueue) : redisQueue[j].key[2] # Undefined
  /\ \A s \in Sockets : \A j \in 1..Len(inbox[s]) :
       inbox[s][j].userId # Undefined
  /\ \A t \in Observed : t.error # "uncaught"

\* C17: a connection that sent subscribe_user for a user once or several
\* times is a member of that user's topic, and a connection that had
\* subscribed more than once when an event for the user arrived, and is
\* still connected, received the broadcast of that event exactly once.
C17_SubscribeIdempotent ==
  /\ \A s \in Sockets, u \in Users :
       asked[<<s, u>>] \in {"join", "joinAgain"} => <<s, u>> \in rooms
  /\ \A s \in Sockets :
       (IsEvent(last) /\ s \in last.againAtArrival /\ sockState[s] = "open")
         => Received(s, last) = 1

\* C17 witness: a connection subscribed to a user more than once, an event
\* for that user arrived afterwards and the connection got it once.
C17_Witness ==
  \E s \in Sockets :
    /\ IsEvent(last) /\ s \in last.againAtArrival
    /\ sockState[s] = "open"
    /\ <<s, last.userId>> \in rooms
    /\ Received(s, last) = 1

\* C18: a connection whose last request about a topic was to leave it is
\* not a member of the topic (until it subscribes again).
C18_LeaveSingleTopic ==
  \A s \in Sockets, u \in Users :
    asked[<<s, u>>] = "leave" => <<s, u>> \notin rooms

\* C19: after an invalidateUser(id) whose store calls succeeded, and with no
\* write to the keys of id issued since it was called, neither store holds
\* a user entry or a presence entry for id, whatever the age of the entries
\* and also when earlier writes had been diverted to the in-process store.
C19_InvalidateRemoves ==
  LET u == last.userId
  IN (/\ last.kind = "invalidate" /\ last.set \in {"ok", "none"}
      /\ wlog[UserKey(u)].seq = last.invSnap[1]
      /\ wlog[PresenceKey(u)].seq = last.invSnap[2])
       => \A k \in {UserKey(u), PresenceKey(u)} :
            memoryCache[k] = Null /\ redisData[k] = Null

\* C20: a request to any of the four REST routes whose Authorization header
\* is not 'Bot <configured token>' is answered 401 and its handler is not
\* run: it reads neither the cache nor the upstream client state.
C20_AllRoutesRequireToken ==
  \A t \in Observed :
    (t.kind \in {"getUser", "getPresence", "health", "guilds"}
       /\ t.auth # ValidHeader)
      => /\ t.pc = "done" /\ t.status = 401
         /\ t.readySeen = "n/a"
         /\ t.rdSnap = NoWrite /\ ~t.rdDone

\* C21: when REDIS_URL is set and the connection attempt at startup fails,
\* the process does not exit: startServer goes on to server.listen, with
\* the in-process store as the cache.
C21_StartsWithoutRedis ==
  server.connect = "failed" =>
    /\ server.phase # "exited"
    /\ ~redisConfigured

\* the calls of the normalizer fn made so far
Calls(fn) == {j \in 1..Len(formatted) : formatted[j].fn = fn}

\* C22: two calls of formatUser, or two calls of formatPresence, on the same
\* raw value return records that are equal in every field, whenever the
\* calls are made.
C22_NormalizersPure ==
  \A fn \in {"formatUser", "formatPresence"} :
    \A j \in Calls(fn), k \in Calls(fn) :
      formatted[j].out = formatted[k].out

RecVer(key, r) == IF key[1] = "user" THEN r.username ELSE r.status

\* C24: a cache read of a user's record that starts after a subscriber
\* received the broadcast of an event about that record returns the record
\* of that event or of a later one, not an older one and not a miss (no
\* time passes, so nothing expires), with either backend and also when
\* Redis calls fail.
C24_WriteBeforeBroadcast ==
  \A t \in Observed :
    (HasRead(t) /\ t.rdHeard > 0) =>
      /\ t.rdRes # Null
      /\ RecVer(KeyOf(t), t.rdRes) >= t.rdHeard

\* C25: the handler of a presence event that carries a user id and was
\* normalized, and that waits for its cache write, eventually ends with the
\* broadcast to the user's topic, whatever the Redis connection does.
C25_EventuallyBroadcast ==
  \A i \in Slots :
    (tasks[i].kind = "presenceUpdate" /\ tasks[i].pc = "awaitSet")
      ~> (tasks[i] = NoTask)

\* C26: an entry of the in-process store changes only by a write, which puts
\* the written value and the time of the write in its place, or by the
\* removal of an entry whose TTL has passed; a read leaves a fresh entry as
\* it is.  So a read of the in-process store finds the value written last
\* until CACHE_TTL after that write, however often the key was written or
\* read before, and nothing afterwards.
C26_FixedTTL ==
  [][/\ \A k \in Keys :
          memoryCache'[k] # memoryCache[k] =>
            \/ /\ memoryCache'[k] = Null
               /\ Expired(memoryCache[k], now')
            \/ /\ memoryCache'[k] # Null
               /\ memoryCache'[k].timestamp = now'
               /\ \E t \in Observed \cup {last'} :
                    KeyOf(t) = k /\ t.val = memoryCache'[k].data
     /\ \A i \in Slots :
          LET t == IF tasks'[i] = NoTask THEN last' ELSE tasks'[i]
          IN (~redisConfigured /\ HasRead(t) /\ t.rdSnap.seq > 0) =>
               IF t.rdAt - t.rdSnap.retAt > CACHE_TTL
                 THEN t.rdRes = Null
                 ELSE t.rdRes = t.rdSnap.val]_vars

\* C26 witness: with the in-process store, a read found an entry fresh some
\* time after it was written, and a later read of the same key, with no
\* write in between, found it expired.
C26_Witness ==
  \E i \in Slots :
    /\ ~redisConfigured
    /\ HasRead(last) /\ last.rdRes # Null
    /\ last.rdAt > last.rdSnap.retAt
    /\ HasRead(tasks[i]) /\ tasks[i].rdRes = Null
    /\ KeyOf(tasks[i]) = KeyOf(last)
    /\ tasks[i].rdSnap = last.rdSnap

\* the times at which a read may come
ReadTimes == {j * TickMs : j \in 0..(MaxSweepTicks + 3)}

\* C27: when the sweep timer fires, every entry whose TTL has passed is
\* removed and every fresh entry is left as it is; a read at the time of
\* the sweep or later returns what it would have returned from the store
\* as it was before the sweep; and no read of the in-process store returns
\* an entry written more than CACHE_TTL before.
C27_SweepNotNeeded ==
  [][/\ now' # now =>
          \A k \in Keys :
            /\ (memoryCache[k] # Null /\ ~Expired(memoryCache[k], now'))
                 => memoryCache'[k] = memoryCache[k]
            /\ (now' % CACHE_TTL = 0 /\ memoryCache[k] # Null
                   /\ Expired(memoryCache[k], now'))
                 => memoryCache'[k] = Null
            /\ \A t \in ReadTimes :
                 t >= now' => getCache(memoryCache', k, t)
                                = getCache(memoryCache, k, t)
     /\ \A i \in Slots :
          LET t == IF tasks'[i] = NoTask THEN last' ELSE tasks'[i]
          IN (~redisConfigured /\ HasRead(t) /\ t.rdRes # Null) =>
               /\ t.rdSnap.seq > 0
               /\ t.rdAt - t.rdSnap.retAt <= CACHE_TTL]_vars

\* C27 witness: with the in-process store, one event was cached and nothing
\* was read, and the entry is gone: the sweep removed it.
C27_Witness ==
  \E k \in Keys :
    /\ ~redisConfigured
    /\ spawned = 1 /\ IsEvent(last) /\ KeyOf(last) = k
    /\ wlog[k].seq = 1
    /\ memoryCache[k] = Null
    /\ now - wlog[k].retAt > CACHE_TTL

\* C28: every member of a user topic is a connection whose authenticated
\* flag is true; the flag of a connection is true only if the connection
\* sent an authenticate message with the configured bot token, whether
\* DISCORD_BOT_TOKEN is set or not; and a connection whose flag is not true
\* has received no presenceUpdate and no userUpdate.
C28_OnlyAuthenticatedSubscribe ==
  /\ \A m \in rooms : authenticated[m[1]]
  /\ \A s \in Sockets :
       authenticated[s] =>
         /\ server.DISCORD_BOT_TOKEN # "undefined"
         /\ authedBy[s] = server.DISCORD_BOT_TOKEN
  /\ \A s \in Sockets : ~authenticated[s] => inbox[s] = << >>

\* C29: when the last thing the upstream client signalled is 'ready', also
\* after a disconnect, the handler's ready flag is true, and no getUser
\* that found the cache empty ends with 'Discord client not ready'.
C29_ReadyRecovers ==
  [][lastSignal' = "ready" =>
       /\ ready'
       /\ last' # last => last'.error # "Discord client not ready"]_vars

\* t is a getPresence that was answered with the synthesized offline record
ReturnedOffline(t) ==
  /\ t.kind = "getPresence" /\ t.pc = "done" /\ t.status = 200
  /\ t.body = ResJson(OfflinePresence(t.userId, t.guildId))

\* C30: the step in which getPresence returns the synthesized offline
\* record writes nothing: it sends no cache command and leaves the entries
\* of both stores as they are (but for the removal of an expired entry it
\* read); and no presence entry in either store, nor a queued write, is a
\* synthesized record: each carries the lastSeen time that only
\* formatPresence gives to an upstream presence.
C30_OfflineNotStored ==
  [][/\ (last' # last /\ ReturnedOffline(last')) =>
          /\ \A k \in Keys : memoryCache'[k] \in {memoryCache[k], Null}
          /\ memoryCache'[PresenceKey(last'.userId)] = Null
          /\ redisData' = redisData
          /\ wlog' = wlog
          /\ Len(redisQueue') <= Len(redisQueue)
     /\ \A u \in Users :
          LET k == PresenceKey(u)
          IN /\ memoryCache'[k] # Null =>
                  memoryCache'[k].data.lastSeen # NEVER
             /\ redisData'[k] # Null =>
                  JSONparse(redisData'[k].val).lastSeen # NEVER
     /\ \A j \in 1..Len(redisQueue') :
          (redisQueue'[j].op = "setEx" /\ redisQueue'[j].key[1] = "presence")
            => JSONparse(redisQueue'[j].val).lastSeen # NEVER]_vars

\* C30 witness: a getPresence found nothing cached and nothing upstream
\* while the client was ready and returned the offline record, and neither
\* store holds a presence entry for that user.
C30_Witness ==
  /\ ReturnedOffline(last) /\ last.readySeen = "yes"
  /\ last.rdDone /\ last.rdRes = Null
  /\ memoryCache[PresenceKey(last.userId)] = Null
  /\ redisData[PresenceKey(last.userId)] = Null

\* a request ended in this step
RequestEnded ==
  last' # last \/ (spawned' = spawned + 1 /\ tasks' = tasks)
\* the ended request read no cache, fetched nothing upstream and wrote no
\* cache entry, and the step sent no cache command and changed no store
NoEffect ==
  /\ ~last'.rdDone /\ last'.fetches = 0 /\ last'.wseq = 0
  /\ UNCHANGED <<memoryCache, redisData, redisQueue, wlog, upUser, upPresence>>
IsRead(t) == t.kind \in {"getUser", "getPresence"}

\* C31 as stated: every request with a non-numeric userId, or for presence a
\* guildId that is given and non-numeric, is answered 400 and has no effect.
C31_NonNumericAlways400 ==
  [][(/\ RequestEnded /\ IsRead(last')
      /\ \/ ~TestDigits(last'.params.userId)
         \/ /\ last'.kind = "getPresence" /\ last'.params.hasGuild
            /\ ~TestDigits(last'.params.guildId))
       => (last'.status = 400 /\ NoEffect)]_vars

\* C31 amended: a request that passed checkBotAuth and has a non-numeric
\* userId, or for presence a non-empty non-numeric guildId, is answered 400
\* and has no effect: the step reads no cache, fetches nothing upstream and
\* writes no cache entry.
C31_Invalid400NoEffect ==
  [][(/\ RequestEnded /\ IsRead(last') /\ checkBotAuth(last'.auth)
      /\ \/ ~TestDigits(last'.params.userId)
         \/ /\ last'.kind = "getPresence" /\ last'.params.hasGuild
            /\ last'.params.guildId # << >>
            /\ ~TestDigits(last'.params.guildId))
       => (last'.status = 400 /\ NoEffect)]_vars

\* C31 witness: a presence request for a user whose presence is cached, with
\* the bot token, a numeric userId and a non-numeric guildId, was answered
\* 400.
C31_Witness ==
  /\ last.kind = "getPresence" /\ last.status = 400
  /\ checkBotAuth(last.auth)
  /\ TestDigits(last.params.userId)
  /\ last.params.hasGuild /\ ~TestDigits(last.params.guildId)
  /\ \/ memoryCache[PresenceKey(last.userId)] # Null
     \/ redisData[PresenceKey(last.userId)] # Null

====
